---- MODULE Spec2Model ----
(***************************************************************************)
(* A model of rag_prep's chunking engine (src/rag_prep/chunkers.py,        *)
(* src/rag_prep/tokenizers.py): the four chunking strategies as Python     *)
(* generators resumed one next() at a time, the tokenizer loader and the   *)
(* strategy resolver get_chunker.                                          *)
(*                                                                         *)
(* A text is a sequence of one-character strings.  A chunk is a record     *)
(* [text, metadata, chunk_id]; metadata is a function from key strings to  *)
(* values.  None, the Python value, is the string "None" wherever a field  *)
(* is Optional.                                                            *)
(***************************************************************************)
EXTENDS Integers, Sequences, FiniteSets, TLC

\* ------------------------------------------------------------------ bounds
MaxLen == 4         \* longest text drawn
MaxSize == 3        \* largest window size drawn (sizes 0..MaxSize)
MaxChunks == 6      \* the consumer takes at most this many chunks of one call
MaxSentences == 3   \* most sentences of a text made of whole sentences

Alphabet == {"a", ".", " "}
None == "None"

Min(a, b) == IF a < b THEN a ELSE b
Max(a, b) == IF a > b THEN a ELSE b

Texts == UNION {[1..n -> Alphabet] : n \in 0..MaxLen}
Sizes == 0..MaxSize
Overlaps == -1..MaxSize

\* the base metadata handed to chunk(): without a source_id, with one, and
\* with a chunk_index of its own (that of a record chunked once already)
Metadatas ==
    { [custom_field |-> "custom_value"],
      [source_id |-> "test", custom_field |-> "custom_value"],
      [source_id |-> "test", chunk_index |-> 7] }

\* ------------------------------------------------------- Python primitives
\* s[a:b] on a sequence, with Python's treatment of negative and
\* out-of-range indices
PySlice(s, a, b) ==
    LET n  == Len(s)
        lo == IF a < 0 THEN Max(a + n, 0) ELSE Min(a, n)
        hi == IF b < 0 THEN Max(b + n, 0) ELSE Min(b, n)
    IN  IF lo < hi THEN SubSeq(s, lo + 1, hi) ELSE <<>>

\* dict.get(key, default)
DictGet(d, key, default) == IF key \in DOMAIN d THEN d[key] ELSE default

\* d.copy() followed by d[key] = value
DictSet(d, key, value) ==
    [k \in DOMAIN d \cup {key} |-> IF k = key THEN value ELSE d[k]]

\* ------------------------------------------------------------------ models
Chunk(text, metadata, chunk_id) ==
    [text |-> text, metadata |-> metadata, chunk_id |-> chunk_id]

\* mutant: the id leaves out the chunk index
IndexedChunkId_bare(metadata, chunk_idx) ==
    DictGet(metadata, "source_id", "doc") \o "_chunk"

\* f"{metadata.get('source_id', 'doc')}_chunk_{chunk_idx}"
IndexedChunkId(metadata, chunk_idx) ==
    DictGet(metadata, "source_id", "doc") \o "_chunk_" \o ToString(chunk_idx)

\* ------------------------------------------------------- generator frames
\* The locals of one chunk() generator, and the chunk it yielded last
\* (item: a sequence of zero or one chunk).
Frame0 ==
    [ pc |-> "start", start |-> 0, end |-> 0, chunk_idx |-> 0,
      tokens |-> <<>>, sentences |-> <<>>, pos |-> 0,
      current_chunk |-> <<>>, current_size |-> 0,
      overlap_sentences |-> <<>>, item |-> <<>> ]

\* the generator returns: StopIteration
Stop(g) == [g EXCEPT !.pc = "done", !.item = <<>>]

\* what a constructor that raised leaves behind: no instance
NoInstance == [kind |-> "unconstructed", size |-> 0, overlap |-> 0, tokenizer |-> None]

\* ----------------------------------------------------- CharacterChunker
CharacterChunker_init(size, overlap) ==
    [kind |-> "character", size |-> size, overlap |-> overlap, tokenizer |-> None]

\* one pass of the while loop, from its test to the yield
CharacterChunker_window(self, text, metadata, g, start, chunk_idx) ==
    IF start < Len(text)
    THEN LET end == start + self.size
             chunk_metadata ==
                 DictSet(DictSet(DictSet(metadata,
                     "chunk_index", chunk_idx),
                     "start_char", start),
                     "end_char", Min(end, Len(text)))
         IN  [g EXCEPT !.pc = "char_yield", !.start = start, !.end = end,
                       !.chunk_idx = chunk_idx,
                       !.item = << Chunk(PySlice(text, start, end), chunk_metadata,
                                         IndexedChunkId(metadata, chunk_idx)) >>]
    ELSE Stop(g)

\* mutant: the loop also ends when the next window would pass the end of the
\* text, dropping the trailing partial window
CharacterChunker_chunk_droptail(self, text, metadata, g) ==
    IF g.pc = "start"
    THEN IF text = <<>> THEN Stop(g)
         ELSE CharacterChunker_window(self, text, metadata, g, 0, 0)
    ELSE LET chunk_idx == g.chunk_idx + 1
             start == g.end - self.overlap
         IN  IF start >= Len(text) \/ start + self.size > Len(text) THEN Stop(g)
             ELSE CharacterChunker_window(self, text, metadata, g, start, chunk_idx)

\* mutant: the cursor advances by the overlap (by 1 at least) instead of by
\* size - overlap
CharacterChunker_chunk_stride(self, text, metadata, g) ==
    IF g.pc = "start"
    THEN IF text = <<>> THEN Stop(g)
         ELSE CharacterChunker_window(self, text, metadata, g, 0, 0)
    ELSE LET chunk_idx == g.chunk_idx + 1
             start == g.start + Max(self.overlap, 1)
         IN  IF start >= Len(text) THEN Stop(g)
             ELSE CharacterChunker_window(self, text, metadata, g, start, chunk_idx)

\* mutant: chunk_idx is not incremented after the yield
CharacterChunker_chunk_sameidx(self, text, metadata, g) ==
    IF g.pc = "start"
    THEN IF text = <<>> THEN Stop(g)
         ELSE CharacterChunker_window(self, text, metadata, g, 0, 0)
    ELSE LET chunk_idx == g.chunk_idx
             start == g.end - self.overlap
         IN  IF start >= Len(text) THEN Stop(g)
             ELSE CharacterChunker_window(self, text, metadata, g, start, chunk_idx)

\* mutant: the cursor is moved back by the whole window, so it stays in place
CharacterChunker_chunk_noadvance(self, text, metadata, g) ==
    IF g.pc = "start"
    THEN IF text = <<>> THEN Stop(g)
         ELSE CharacterChunker_window(self, text, metadata, g, 0, 0)
    ELSE LET chunk_idx == g.chunk_idx + 1
             start == g.end - self.size
         IN  IF start >= Len(text) THEN Stop(g)
             ELSE CharacterChunker_window(self, text, metadata, g, start, chunk_idx)

\* mutant: the loop ends after the window that reaches the end of the text
CharacterChunker_chunk_stopatend(self, text, metadata, g) ==
    IF g.pc = "start"
    THEN IF text = <<>> THEN Stop(g)
         ELSE CharacterChunker_window(self, text, metadata, g, 0, 0)
    ELSE LET chunk_idx == g.chunk_idx + 1
             start == g.end - self.overlap
         IN  IF g.end >= Len(text) THEN Stop(g)
             ELSE CharacterChunker_window(self, text, metadata, g, start, chunk_idx)

\* next() on the generator CharacterChunker.chunk(text, metadata)
CharacterChunker_chunk(self, text, metadata, g) ==
    IF g.pc = "start"
    THEN IF text = <<>> THEN Stop(g)
         ELSE CharacterChunker_window(self, text, metadata, g, 0, 0)
    ELSE \* resumed after the yield
         LET chunk_idx == g.chunk_idx + 1
             start == g.end - self.overlap
         IN  IF start >= Len(text) THEN Stop(g)
             ELSE CharacterChunker_window(self, text, metadata, g, start, chunk_idx)

\* ------------------------------------------------------------ tokenizers
\* The vocabulary of the tokenization backend: token id -> the piece of text
\* it stands for.  A byte-pair style vocabulary: single characters, and one
\* merged pair.
Vocab ==
    (1 :> <<"a">>) @@ (2 :> <<".">>) @@ (3 :> <<" ">>) @@ (4 :> <<"a", "a">>) @@
    (5 :> <<",">>)

\* whether piece p occurs in s at position i
PieceAt(s, i, p) ==
    /\ i + Len(p) - 1 <= Len(s)
    /\ SubSeq(s, i, i + Len(p) - 1) = p

\* the token of the longest vocabulary piece at position i
LongestAt(s, i) ==
    CHOOSE t \in DOMAIN Vocab :
        /\ PieceAt(s, i, Vocab[t])
        /\ \A u \in DOMAIN Vocab :
               PieceAt(s, i, Vocab[u]) => Len(Vocab[u]) <= Len(Vocab[t])

RECURSIVE EncodeFrom(_, _)
EncodeFrom(s, i) ==
    IF i > Len(s) THEN <<>>
    ELSE LET t == LongestAt(s, i)
         IN  <<t>> \o EncodeFrom(s, i + Len(Vocab[t]))

\* TiktokenWrapper.encode: the backend's encoding of the text
TiktokenWrapper_encode(s) == EncodeFrom(s, 1)

RECURSIVE TiktokenWrapper_decode(_)
\* TiktokenWrapper.decode: the backend's decoding of a token list
TiktokenWrapper_decode(tokens) ==
    IF tokens = <<>> THEN <<>>
    ELSE Vocab[Head(tokens)] \o TiktokenWrapper_decode(Tail(tokens))

Tiktoken == "TiktokenWrapper"
KnownEncodings == {"cl100k_base"}
TokenizerNames == {None, "cl100k_base", "invalid_tokenizer_name_xyz"}
Backends == {"installed", "missing"}     \* whether `import tiktoken` succeeds

\* mutant: the backend's own error for an encoding it does not know escapes
\* as it is
get_tokenizer_unwrapped(name, backend) ==
    IF name = None THEN [value |-> None, raised |-> None]
    ELSE IF backend = "missing" THEN [value |-> None, raised |-> "ImportError"]
    ELSE IF name \notin KnownEncodings THEN [value |-> None, raised |-> "KeyError"]
    ELSE [value |-> Tiktoken, raised |-> None]

\* get_tokenizer(name) where the tokenization library is `backend`:
\* what it returns, or the kind of error it raises
get_tokenizer(name, backend) ==
    IF name = None THEN [value |-> None, raised |-> None]
    ELSE IF backend = "missing" THEN [value |-> None, raised |-> "ImportError"]
    ELSE IF name \notin KnownEncodings THEN [value |-> None, raised |-> "ValueError"]
    ELSE [value |-> Tiktoken, raised |-> None]

\* ---------------------------------------------------------- TokenChunker
\* mutant: the constructor catches ImportError only
TokenChunker_caught_import == {"ImportError"}

\* the error kinds TokenChunker.__init__ catches around get_tokenizer
TokenChunker_caught == {"ImportError", "ValueError"}

\* TokenChunker(size, overlap, tokenizer, tokenizer_name): the instance, how
\* its tokenizer was obtained, and the error that escapes the constructor
TokenChunker_init(size, overlap, tokenizer, tokenizer_name, backend) ==
    LET self == [kind |-> "token", size |-> size, overlap |-> overlap,
                 tokenizer |-> None]
    IN  IF tokenizer # None
        THEN [self |-> [self EXCEPT !.tokenizer = tokenizer],
              load |-> "given", raised |-> None]
        ELSE LET r == get_tokenizer(tokenizer_name, backend)
             IN  IF r.raised = None
                 THEN [self |-> [self EXCEPT !.tokenizer = r.value],
                       load |-> IF r.value = None THEN "name_none" ELSE "loaded",
                       raised |-> None]
                 ELSE IF r.raised \in TokenChunker_caught
                 THEN [self |-> self, load |-> r.raised, raised |-> None]
                 ELSE [self |-> NoInstance, load |-> r.raised, raised |-> r.raised]

\* mutant: end_token is recorded as the window's end, past the last token
TokenChunker_window_unclipped(self, metadata, g, start, chunk_idx) ==
    IF start < Len(g.tokens)
    THEN LET end == start + self.size
             chunk_tokens == PySlice(g.tokens, start, end)
             chunk_metadata ==
                 DictSet(DictSet(DictSet(metadata,
                     "chunk_index", chunk_idx),
                     "start_token", start),
                     "end_token", end)
         IN  [g EXCEPT !.pc = "token_yield", !.start = start, !.end = end,
                       !.chunk_idx = chunk_idx,
                       !.item = << Chunk(TiktokenWrapper_decode(chunk_tokens),
                                         chunk_metadata,
                                         IndexedChunkId(metadata, chunk_idx)) >>]
    ELSE Stop(g)

\* one pass of the token while loop, from its test to the yield
TokenChunker_window(self, metadata, g, start, chunk_idx) ==
    IF start < Len(g.tokens)
    THEN LET end == start + self.size
             chunk_tokens == PySlice(g.tokens, start, end)
             chunk_metadata ==
                 DictSet(DictSet(DictSet(metadata,
                     "chunk_index", chunk_idx),
                     "start_token", start),
                     "end_token", Min(end, Len(g.tokens)))
         IN  [g EXCEPT !.pc = "token_yield", !.start = start, !.end = end,
                       !.chunk_idx = chunk_idx,
                       !.item = << Chunk(TiktokenWrapper_decode(chunk_tokens),
                                         chunk_metadata,
                                         IndexedChunkId(metadata, chunk_idx)) >>]
    ELSE Stop(g)

\* whether TokenChunker.chunk takes the character fallback
TokenChunker_fallback(self, text) == text = <<>> \/ self.tokenizer = None

\* next() on the generator TokenChunker.chunk(text, metadata)
TokenChunker_chunk(self, text, metadata, g) ==
    IF g.pc = "start"
    THEN IF TokenChunker_fallback(self, text)
         THEN CharacterChunker_chunk(
                  CharacterChunker_init(self.size, self.overlap), text, metadata, g)
         ELSE LET tokens == TiktokenWrapper_encode(text)
              IN  IF tokens = <<>> THEN Stop(g)
                  ELSE TokenChunker_window(self, metadata,
                           [g EXCEPT !.tokens = tokens], 0, 0)
    ELSE IF g.pc = "char_yield"
    THEN \* inside `yield from chunker.chunk(text, metadata)`
         CharacterChunker_chunk(
             CharacterChunker_init(self.size, self.overlap), text, metadata, g)
    ELSE LET chunk_idx == g.chunk_idx + 1
             start == g.end - self.overlap
         IN  IF start >= Len(g.tokens) THEN Stop(g)
             ELSE TokenChunker_window(self, metadata, g, start, chunk_idx)

\* ------------------------------------------------------- SentenceChunker
IsPunct(c) == c \in {".", "!", "?"}            \* [.!?]
IsSpace(c) == c \in {" ", "\t", "\n", "\r"}    \* \s

\* the end of the whitespace run starting at i: the first position past it
RECURSIVE SkipSpace(_, _)
SkipSpace(s, i) ==
    IF i <= Len(s) /\ IsSpace(s[i]) THEN SkipSpace(s, i + 1) ELSE i

\* re.split(r"(?<=[.!?])\s+", s) from position i on, cur being the piece
\* collected since the last separator
RECURSIVE SplitFrom(_, _, _)
SplitFrom(s, i, cur) ==
    IF i > Len(s) THEN <<cur>>
    ELSE IF IsSpace(s[i]) /\ i > 1 /\ IsPunct(s[i - 1])
    THEN <<cur>> \o SplitFrom(s, SkipSpace(s, i), <<>>)
    ELSE SplitFrom(s, i + 1, Append(cur, s[i]))

SplitSentences(s) == SplitFrom(s, 1, <<>>)

\* " ".join(parts)
RECURSIVE JoinSpace(_)
JoinSpace(parts) ==
    IF parts = <<>> THEN <<>>
    ELSE IF Len(parts) = 1 THEN parts[1]
    ELSE parts[1] \o <<" ">> \o JoinSpace(Tail(parts))

\* sum(len(s) for s in parts)
RECURSIVE SumLen(_)
SumLen(parts) ==
    IF parts = <<>> THEN 0 ELSE Len(Head(parts)) + SumLen(Tail(parts))

\* mutant: a sentence that does not fit in the overlap is skipped and the
\* walk goes on
RECURSIVE OverlapSentences_skip(_, _, _, _, _)
OverlapSentences_skip(current_chunk, k, acc, overlap_size, overlap) ==
    IF k = 0 THEN acc
    ELSE IF overlap_size + Len(current_chunk[k]) <= overlap
    THEN OverlapSentences_skip(current_chunk, k - 1, <<current_chunk[k]>> \o acc,
                               overlap_size + Len(current_chunk[k]), overlap)
    ELSE OverlapSentences_skip(current_chunk, k - 1, acc, overlap_size, overlap)

\* the overlap loop: walk current_chunk[1..k] in reverse, prepending
\* sentences to acc while they fit in `overlap`; stop at the first that
\* does not
RECURSIVE OverlapSentences(_, _, _, _, _)
OverlapSentences(current_chunk, k, acc, overlap_size, overlap) ==
    IF k = 0 THEN acc
    ELSE IF overlap_size + Len(current_chunk[k]) <= overlap
    THEN OverlapSentences(current_chunk, k - 1, <<current_chunk[k]>> \o acc,
                          overlap_size + Len(current_chunk[k]), overlap)
    ELSE acc

SentenceChunker_init(size, overlap) ==
    [kind |-> "sentence", size |-> size, overlap |-> overlap, tokenizer |-> None]

\* mutant: the sentence chunk also carries character offsets
SentenceChunker_emit_offsets(metadata, g) ==
    Chunk(JoinSpace(g.current_chunk),
          DictSet(DictSet(DictSet(metadata,
              "chunk_index", g.chunk_idx),
              "start_char", 0),
              "end_char", Len(JoinSpace(g.current_chunk))),
          IndexedChunkId(metadata, g.chunk_idx))

\* the chunk built from current_chunk
SentenceChunker_emit(metadata, g) ==
    Chunk(JoinSpace(g.current_chunk),
          DictSet(metadata, "chunk_index", g.chunk_idx),
          IndexedChunkId(metadata, g.chunk_idx))

\* mutant: a sentence is taken only while the buffer stays strictly below size
RECURSIVE SentenceChunker_loop_strict(_, _, _)
SentenceChunker_loop_strict(self, metadata, g) ==
    IF g.pos > Len(g.sentences)
    THEN IF g.current_chunk # <<>>
         THEN [g EXCEPT !.pc = "sentence_final",
                        !.item = << SentenceChunker_emit(metadata, g) >>]
         ELSE Stop(g)
    ELSE LET sentence == g.sentences[g.pos]
         IN  IF g.current_size + Len(sentence) < self.size
             THEN SentenceChunker_loop_strict(self, metadata,
                      [g EXCEPT !.current_chunk = Append(@, sentence),
                                !.current_size = @ + Len(sentence),
                                !.pos = @ + 1])
             ELSE IF g.current_chunk # <<>>
             THEN [g EXCEPT !.pc = "sentence_yield",
                            !.item = << SentenceChunker_emit(metadata, g) >>]
             ELSE LET cc == g.overlap_sentences \o <<sentence>>
                  IN  SentenceChunker_loop_strict(self, metadata,
                          [g EXCEPT !.current_chunk = cc,
                                    !.current_size = SumLen(cc),
                                    !.pos = @ + 1])

\* mutant: a sentence that does not fit in an empty buffer is left out
RECURSIVE SentenceChunker_loop_dropbig(_, _, _)
SentenceChunker_loop_dropbig(self, metadata, g) ==
    IF g.pos > Len(g.sentences)
    THEN IF g.current_chunk # <<>>
         THEN [g EXCEPT !.pc = "sentence_final",
                        !.item = << SentenceChunker_emit(metadata, g) >>]
         ELSE Stop(g)
    ELSE LET sentence == g.sentences[g.pos]
         IN  IF g.current_size + Len(sentence) <= self.size
             THEN SentenceChunker_loop_dropbig(self, metadata,
                      [g EXCEPT !.current_chunk = Append(@, sentence),
                                !.current_size = @ + Len(sentence),
                                !.pos = @ + 1])
             ELSE IF g.current_chunk # <<>>
             THEN [g EXCEPT !.pc = "sentence_yield",
                            !.item = << SentenceChunker_emit(metadata, g) >>]
             ELSE SentenceChunker_loop_dropbig(self, metadata,
                      [g EXCEPT !.pos = @ + 1])

\* the for loop from sentence number g.pos on, up to the next yield or the
\* generator's return
RECURSIVE SentenceChunker_loop(_, _, _)
SentenceChunker_loop(self, metadata, g) ==
    IF g.pos > Len(g.sentences)
    THEN \* emit final chunk
         IF g.current_chunk # <<>>
         THEN [g EXCEPT !.pc = "sentence_final",
                        !.item = << SentenceChunker_emit(metadata, g) >>]
         ELSE Stop(g)
    ELSE LET sentence == g.sentences[g.pos]
         IN  IF g.current_size + Len(sentence) <= self.size
             THEN SentenceChunker_loop(self, metadata,
                      [g EXCEPT !.current_chunk = Append(@, sentence),
                                !.current_size = @ + Len(sentence),
                                !.pos = @ + 1])
             ELSE IF g.current_chunk # <<>>
             THEN [g EXCEPT !.pc = "sentence_yield",
                            !.item = << SentenceChunker_emit(metadata, g) >>]
             ELSE LET cc == g.overlap_sentences \o <<sentence>>
                  IN  SentenceChunker_loop(self, metadata,
                          [g EXCEPT !.current_chunk = cc,
                                    !.current_size = SumLen(cc),
                                    !.pos = @ + 1])

\* mutant: resumed after the yield in the loop, the sentence that did not
\* fit is put in the next buffer and then examined once more
SentenceChunker_chunk_again(self, text, metadata, g) ==
    IF g.pc = "start"
    THEN IF text = <<>> THEN Stop(g)
         ELSE SentenceChunker_loop(self, metadata,
                  [g EXCEPT !.sentences = SplitSentences(text), !.pos = 1])
    ELSE IF g.pc = "sentence_yield"
    THEN LET ov == OverlapSentences(g.current_chunk, Len(g.current_chunk),
                                    <<>>, 0, self.overlap)
             cc == ov \o <<g.sentences[g.pos]>>
         IN  SentenceChunker_loop(self, metadata,
                 [g EXCEPT !.chunk_idx = @ + 1,
                           !.overlap_sentences = ov,
                           !.current_chunk = cc,
                           !.current_size = SumLen(cc)])
    ELSE Stop(g)

\* next() on the generator SentenceChunker.chunk(text, metadata)
SentenceChunker_chunk(self, text, metadata, g) ==
    IF g.pc = "start"
    THEN IF text = <<>> THEN Stop(g)
         ELSE LET sentences == SplitSentences(text)
              IN  IF sentences = <<>>
                  THEN CharacterChunker_chunk(
                           CharacterChunker_init(self.size, self.overlap),
                           text, metadata, g)
                  ELSE SentenceChunker_loop(self, metadata,
                           [g EXCEPT !.sentences = sentences, !.pos = 1])
    ELSE IF g.pc = "char_yield"
    THEN CharacterChunker_chunk(
             CharacterChunker_init(self.size, self.overlap), text, metadata, g)
    ELSE IF g.pc = "sentence_yield"
    THEN \* resumed after the yield in the loop: prepare the overlap, start
         \* the next buffer with the sentence that did not fit
         LET ov == OverlapSentences(g.current_chunk, Len(g.current_chunk),
                                    <<>>, 0, self.overlap)
             cc == ov \o <<g.sentences[g.pos]>>
         IN  SentenceChunker_loop(self, metadata,
                 [g EXCEPT !.chunk_idx = @ + 1,
                           !.overlap_sentences = ov,
                           !.current_chunk = cc,
                           !.current_size = SumLen(cc),
                           !.pos = @ + 1])
    ELSE Stop(g)   \* resumed after the final yield

\* ------------------------------------------------------------- NoChunker
NoChunker_init == [kind |-> "none", size |-> 0, overlap |-> 0, tokenizer |-> None]

\* mutant: the pass-through chunk is given an indexed id and a chunk_index
NoChunker_chunk_indexed(self, text, metadata, g) ==
    IF g.pc = "start"
    THEN [g EXCEPT !.pc = "none_yield",
                   !.item = << Chunk(text, DictSet(metadata, "chunk_index", 0),
                                     IndexedChunkId(metadata, 0)) >>]
    ELSE Stop(g)

\* next() on the generator NoChunker.chunk(text, metadata)
NoChunker_chunk(self, text, metadata, g) ==
    IF g.pc = "start"
    THEN [g EXCEPT !.pc = "none_yield",
                   !.item = << Chunk(text, metadata,
                                     DictGet(metadata, "source_id", "doc")) >>]
    ELSE Stop(g)

\* ------------------------------------------------------------ get_chunker
\* Strategy strings are sequences of one-character strings.
UpperLetters ==
    <<"A", "B", "C", "D", "E", "F", "G", "H", "I", "J", "K", "L", "M",
      "N", "O", "P", "Q", "R", "S", "T", "U", "V", "W", "X", "Y", "Z">>
LowerLetters ==
    <<"a", "b", "c", "d", "e", "f", "g", "h", "i", "j", "k", "l", "m",
      "n", "o", "p", "q", "r", "s", "t", "u", "v", "w", "x", "y", "z">>

LowerChar(c) ==
    IF \E i \in 1..26 : UpperLetters[i] = c
    THEN LowerLetters[CHOOSE i \in 1..26 : UpperLetters[i] = c]
    ELSE c

\* s.lower()
StrLower(s) == [i \in 1..Len(s) |-> LowerChar(s[i])]

\* s.split(".") from position i on, cur being the part collected so far
RECURSIVE SplitDotFrom(_, _, _)
SplitDotFrom(s, i, cur) ==
    IF i > Len(s) THEN <<cur>>
    ELSE IF s[i] = "." THEN <<cur>> \o SplitDotFrom(s, i + 1, <<>>)
    ELSE SplitDotFrom(s, i + 1, Append(cur, s[i]))

\* ".".join(parts)
RECURSIVE JoinDot(_)
JoinDot(parts) ==
    IF parts = <<>> THEN <<>>
    ELSE IF Len(parts) = 1 THEN parts[1]
    ELSE parts[1] \o <<".">> \o JoinDot(Tail(parts))

Name_character == <<"c", "h", "a", "r", "a", "c", "t", "e", "r">>
Name_token == <<"t", "o", "k", "e", "n">>
Name_sentence == <<"s", "e", "n", "t", "e", "n", "c", "e">>
Name_none == <<"n", "o", "n", "e">>

\* the strategy strings drawn: the built-in names in several spellings, and
\* references to external classes
Strategies ==
    { <<"c", "h", "a", "r", "a", "c", "t", "e", "r">>,
      <<"C", "h", "a", "r", "a", "c", "t", "e", "r">>,
      <<"t", "o", "k", "e", "n">>,
      <<"T", "O", "K", "E", "N">>,
      <<"s", "e", "n", "t", "e", "n", "c", "e">>,
      <<"S", "e", "n", "t", "e", "n", "c", "e">>,
      <<"n", "o", "n", "e">>,
      <<"N", "O", "N", "E">>,
      <<"b", "o", "g", "u", "s", "_", "x", "y", "z">>,
      <<"m", "y", "p", "a", "c", "k", "a", "g", "e", ".", "C", "u", "s", "t", "o", "m", "C", "h", "u", "n", "k", "e", "r">>,
      <<"m", "y", "p", "a", "c", "k", "a", "g", "e", ".", "P", "l", "a", "i", "n", "C", "h", "u", "n", "k", "e", "r">>,
      <<"m", "y", "p", "a", "c", "k", "a", "g", "e", ".", "B", "r", "o", "k", "e", "n", "C", "h", "u", "n", "k", "e", "r">>,
      <<"m", "y", "p", "a", "c", "k", "a", "g", "e", ".", "F", "a", "i", "l", "i", "n", "g", "C", "h", "u", "n", "k", "e", "r">>,
      <<"m", "y", "p", "a", "c", "k", "a", "g", "e", ".", "M", "i", "s", "s", "i", "n", "g">>,
      <<"n", "o", "p", "a", "c", "k", "a", "g", "e", ".", "C", "u", "s", "t", "o", "m", "C", "h", "u", "n", "k", "e", "r">> }

\* The importable modules: one package, mypackage, with four classes.
\*   CustomChunker   takes size and overlap keyword arguments
\*   PlainChunker    takes no arguments (TypeError when given any)
\*   BrokenChunker   raises TypeError however it is called
\*   FailingChunker  raises RuntimeError from its constructor
Module_mypackage == <<"m", "y", "p", "a", "c", "k", "a", "g", "e">>
InstalledModules == {Module_mypackage}
ModuleAttrs ==
    (<<"C", "u", "s", "t", "o", "m", "C", "h", "u", "n", "k", "e", "r">> :> "kwargs") @@
    (<<"P", "l", "a", "i", "n", "C", "h", "u", "n", "k", "e", "r">> :> "noargs") @@
    (<<"B", "r", "o", "k", "e", "n", "C", "h", "u", "n", "k", "e", "r">> :> "neither") @@
    (<<"F", "a", "i", "l", "i", "n", "g", "C", "h", "u", "n", "k", "e", "r">> :> "fails")

\* importlib.import_module(module_name): the error it raises, or None
import_module(module_name) ==
    IF module_name = <<>> THEN "ValueError"          \* Empty module name
    ELSE IF module_name \notin InstalledModules THEN "ModuleNotFoundError"
    ELSE None

\* chunker_class(size=size, overlap=overlap): the error it raises, or None
ConstructKw(behaviour) ==
    CASE behaviour = "kwargs" -> None
      [] behaviour = "fails" -> "RuntimeError"
      [] OTHER -> "TypeError"

\* chunker_class(): the error it raises, or None
ConstructNoArgs(behaviour) ==
    CASE behaviour = "neither" -> "TypeError"
      [] behaviour = "fails" -> "RuntimeError"
      [] OTHER -> None

\* the ValueError get_chunker raises for a strategy it cannot resolve
UnknownStrategyError(strategy, cause) ==
    [ kind |-> "ValueError", strategy |-> strategy,
      supported |-> <<Name_character, Name_token, Name_sentence, Name_none>>,
      cause |-> cause ]

NoError == [kind |-> None, strategy |-> <<>>, supported |-> <<>>, cause |-> None]

\* an instance of an externally supplied class
CustomInstance(class_name, args) ==
    [kind |-> "custom", cls |-> class_name, args |-> args]

Resolved(chunker, ld, err, steps) ==
    [chunker |-> chunker, load |-> ld, error |-> err, steps |-> steps]

\* mutant: only a failed import is caught; any other error escapes as it is
get_chunker_except_import(strategy, cause) ==
    IF cause = "ModuleNotFoundError"
    THEN UnknownStrategyError(strategy, cause)
    ELSE [kind |-> cause, strategy |-> <<>>, supported |-> <<>>, cause |-> None]

\* except Exception as e: raise ValueError(...) around the whole of the
\* external resolution, e being the error `cause`
get_chunker_except(strategy, cause) == UnknownStrategyError(strategy, cause)

\* mutant: construction without arguments is attempted after any error of
\* the attempt with size and overlap, not after a TypeError only
get_chunker_external_retry_any(strategy, size, overlap) ==
    LET parts == SplitDotFrom(strategy, 1, <<>>)
        module_name == JoinDot(SubSeq(parts, 1, Len(parts) - 1))
        class_name == parts[Len(parts)]
        fail(cause, steps) ==
            Resolved(NoInstance, "n/a", get_chunker_except(strategy, cause), steps)
    IN  IF import_module(module_name) # None
        THEN fail(import_module(module_name), <<"import">>)
        ELSE IF class_name \notin DOMAIN ModuleAttrs
        THEN fail("AttributeError", <<"import", "getattr">>)
        ELSE LET b == ModuleAttrs[class_name]
             IN  IF ConstructKw(b) = None
                 THEN Resolved(CustomInstance(class_name, <<size, overlap>>), "n/a",
                               NoError, <<"import", "getattr", "kwargs">>)
                 ELSE IF ConstructNoArgs(b) = None
                 THEN Resolved(CustomInstance(class_name, <<>>), "n/a",
                               NoError, <<"import", "getattr", "kwargs", "noargs">>)
                 ELSE fail(ConstructNoArgs(b),
                           <<"import", "getattr", "kwargs", "noargs">>)

\* the else branch of get_chunker: load the class from the dotted path and
\* construct it; steps lists what was attempted
get_chunker_external(strategy, size, overlap) ==
    LET parts == SplitDotFrom(strategy, 1, <<>>)
        module_name == JoinDot(SubSeq(parts, 1, Len(parts) - 1))
        class_name == parts[Len(parts)]
        fail(cause, steps) ==
            Resolved(NoInstance, "n/a", get_chunker_except(strategy, cause), steps)
    IN  IF import_module(module_name) # None
        THEN fail(import_module(module_name), <<"import">>)
        ELSE IF class_name \notin DOMAIN ModuleAttrs
        THEN fail("AttributeError", <<"import", "getattr">>)
        ELSE LET b == ModuleAttrs[class_name]
             IN  IF ConstructKw(b) = None
                 THEN Resolved(CustomInstance(class_name, <<size, overlap>>), "n/a",
                               NoError, <<"import", "getattr", "kwargs">>)
                 ELSE IF ConstructKw(b) # "TypeError"
                 THEN fail(ConstructKw(b), <<"import", "getattr", "kwargs">>)
                 ELSE IF ConstructNoArgs(b) = None
                 THEN Resolved(CustomInstance(class_name, <<>>), "n/a",
                               NoError, <<"import", "getattr", "kwargs", "noargs">>)
                 ELSE fail(ConstructNoArgs(b),
                           <<"import", "getattr", "kwargs", "noargs">>)

\* mutant: the strategy is compared as given
get_chunker_key_asis(strategy) == strategy

\* strategy_lower = strategy.lower()
get_chunker_key(strategy) == StrLower(strategy)

\* get_chunker(strategy, size, overlap, tokenizer, tokenizer_name), where the
\* tokenization library is `backend`
get_chunker(strategy, size, overlap, tokenizer, tokenizer_name, backend) ==
    LET strategy_lower == get_chunker_key(strategy)
    IN  IF strategy_lower = Name_character
        THEN Resolved(CharacterChunker_init(size, overlap), "n/a", NoError, <<>>)
        ELSE IF strategy_lower = Name_token
        THEN LET t == TokenChunker_init(size, overlap, tokenizer, tokenizer_name, backend)
             IN  Resolved(t.self, t.load,
                          IF t.raised = None THEN NoError
                          ELSE [NoError EXCEPT !.kind = t.raised], <<>>)
        ELSE IF strategy_lower = Name_sentence
        THEN Resolved(SentenceChunker_init(size, overlap), "n/a", NoError, <<>>)
        ELSE IF strategy_lower = Name_none
        THEN Resolved(NoChunker_init, "n/a", NoError, <<>>)
        ELSE get_chunker_external(strategy, size, overlap)

\* ---------------------------------------------- a caller's own chunker
\* s.strip()
RECURSIVE LStrip(_)
LStrip(s) == IF s # <<>> /\ IsSpace(s[1]) THEN LStrip(Tail(s)) ELSE s
RECURSIVE RStrip(_)
RStrip(s) ==
    IF s # <<>> /\ IsSpace(s[Len(s)]) THEN RStrip(SubSeq(s, 1, Len(s) - 1)) ELSE s
Strip(s) == RStrip(LStrip(s))

\* s.split(",") from position i on, cur being the part collected so far
RECURSIVE SplitCommaFrom(_, _, _)
SplitCommaFrom(s, i, cur) ==
    IF i > Len(s) THEN <<cur>>
    ELSE IF s[i] = "," THEN <<cur>> \o SplitCommaFrom(s, i + 1, <<>>)
    ELSE SplitCommaFrom(s, i + 1, Append(cur, s[i]))

\* CommaChunker(size, overlap): a chunker written by the caller, of no
\* built-in class; it ignores size and overlap
CommaChunker_init(size, overlap) ==
    [kind |-> "comma", size |-> size, overlap |-> overlap, tokenizer |-> None]

\* the for loop of CommaChunker.chunk from the part at position pos on
\* (idx = pos - 1), up to its next yield
RECURSIVE CommaChunker_loop(_, _, _, _)
CommaChunker_loop(parts, metadata, g, pos) ==
    IF pos > Len(parts) THEN Stop(g)
    ELSE IF Strip(parts[pos]) # <<>>
    THEN LET idx == pos - 1
             chunk_metadata ==
                 DictSet(DictSet(metadata, "chunk_index", idx),
                         "split_method", "comma")
         IN  [g EXCEPT !.pc = "comma_yield", !.pos = pos + 1, !.chunk_idx = idx,
                       !.item = << Chunk(Strip(parts[pos]), chunk_metadata,
                                         DictGet(metadata, "source_id", "doc")
                                             \o "_comma_" \o ToString(idx)) >>]
    ELSE CommaChunker_loop(parts, metadata, g, pos + 1)

\* next() on the generator CommaChunker.chunk(text, metadata)
CommaChunker_chunk(self, text, metadata, g) ==
    CommaChunker_loop(SplitCommaFrom(text, 1, <<>>), metadata, g,
                      IF g.pc = "start" THEN 1 ELSE g.pos)

\* ------------------------------------------------------- chunker.chunk(...)
\* next() on the generator chunker.chunk(text, metadata), whatever the class
\* of chunker
Strategy_chunk(self, text, metadata, g) ==
    CASE self.kind = "character" -> CharacterChunker_chunk(self, text, metadata, g)
      [] self.kind = "token" -> TokenChunker_chunk(self, text, metadata, g)
      [] self.kind = "sentence" -> SentenceChunker_chunk(self, text, metadata, g)
      [] self.kind = "comma" -> CommaChunker_chunk(self, text, metadata, g)
      [] OTHER -> NoChunker_chunk(self, text, metadata, g)

\* mutant: chunk() repairs an overlap that is not below size, on the instance
chunk_writes_clamp(self) ==
    IF self.overlap >= self.size
    THEN [self EXCEPT !.overlap = Max(self.size - 1, 0)]
    ELSE self

\* the instance after a step of one of its chunk() generators: no chunk()
\* assigns an attribute of self
chunk_writes(self) == self

\* ------------------------------------------------------------ prepare_docs
\* the metadata hooks of the runs drawn: what hook(metadata, text) returns
Hook(name, metadata, text) ==
    CASE name = "add_timestamp" ->
             DictSet(DictSet(metadata, "processed_at", "now"),
                     "text_length", Len(text))
      [] name = "hook1" -> DictSet(metadata, "hook1", "value1")
      [] OTHER -> DictSet(metadata, "hook2", "value2")

\* the keys hook `name` adds
HookKeys(name) ==
    CASE name = "add_timestamp" -> {"processed_at", "text_length"}
      [] name = "hook1" -> {"hook1"}
      [] OTHER -> {"hook2"}

\* callable(hook): an entry of config.metadata_hooks may be anything
Callable(name) == name \in {"add_timestamp", "hook1", "hook2"}

HookEvent(d, name, given, returned) ==
    [event |-> "hook", doc |-> d, hook |-> name, given |-> given, returned |-> returned]

\* mutant: every hook is handed the metadata the loader produced
RECURSIVE ApplyHooks_unchained(_, _, _, _, _)
ApplyHooks_unchained(hooks, i, metadata, text, d) ==
    IF i > Len(hooks) THEN [metadata |-> metadata, events |-> <<>>]
    ELSE IF Callable(hooks[i])
    THEN LET returned == Hook(hooks[i], metadata, text)
             rest == ApplyHooks_unchained(hooks, i + 1, metadata, text, d)
         IN  [metadata |-> IF rest.events = <<>> THEN returned ELSE rest.metadata,
              events |-> <<HookEvent(d, hooks[i], metadata, returned)>> \o rest.events]
    ELSE ApplyHooks_unchained(hooks, i + 1, metadata, text, d)

\* the loop over config.metadata_hooks from entry i on, for document d whose
\* metadata is now `metadata`: the metadata it ends with, and the hook calls
\* it made
RECURSIVE ApplyHooks(_, _, _, _, _)
ApplyHooks(hooks, i, metadata, text, d) ==
    IF i > Len(hooks) THEN [metadata |-> metadata, events |-> <<>>]
    ELSE IF Callable(hooks[i])
    THEN LET returned == Hook(hooks[i], metadata, text)
             rest == ApplyHooks(hooks, i + 1, returned, text, d)
         IN  [metadata |-> rest.metadata,
              events |-> <<HookEvent(d, hooks[i], metadata, returned)>> \o rest.events]
    ELSE ApplyHooks(hooks, i + 1, metadata, text, d)

\* the tokenizer prepare_docs ends up with: a failure to load is caught
prepare_docs_tokenizer(tokenizer, config, backend) ==
    IF tokenizer = None /\ config.tokenizer_name # None
    THEN LET r == get_tokenizer(config.tokenizer_name, backend)
         IN  IF r.raised \in {"ImportError", "ValueError"} THEN None ELSE r.value
    ELSE tokenizer

\* mutant: the strategy of the config is resolved whether or not a chunker
\* was passed
prepare_docs_chunker_always(chunker, config, tokenizer, backend) ==
    [ called |-> TRUE,
      r |-> get_chunker(config.chunk_strategy, config.chunk_size,
                        config.chunk_overlap, tokenizer, config.tokenizer_name,
                        backend) ]

\* the chunker prepare_docs uses, NoInstance standing for chunker=None, and
\* whether get_chunker was called for it
prepare_docs_chunker(chunker, config, tokenizer, backend) ==
    IF chunker = NoInstance
    THEN [ called |-> TRUE,
           r |-> get_chunker(config.chunk_strategy, config.chunk_size,
                             config.chunk_overlap, tokenizer, config.tokenizer_name,
                             backend) ]
    ELSE [ called |-> FALSE, r |-> Resolved(chunker, "n/a", NoError, <<>>) ]

\* where the prepare_docs generator is: the document it is at (0 before the
\* first), that document's text and metadata after the hooks, the frame of
\* the chunk() generator over it, what it has done so far, and how its last
\* next() ended
Cursor0 ==
    [ doc |-> 0, text |-> <<>>, metadata |-> <<>>, gen |-> Stop(Frame0),
      trace |-> <<>>, status |-> "yield", error |-> None ]

\* mutant: the loader and the hooks run one document ahead of the chunks
\* taken
RECURSIVE prepare_docs_resume_ahead(_, _, _, _)
prepare_docs_resume_ahead(chunker, config, source, c) ==
    IF c.gen.pc # "done"
    THEN LET g == Strategy_chunk(chunker, c.text, c.metadata, c.gen)
         IN  IF g.item # <<>>
             THEN [c EXCEPT !.gen = g, !.status = "yield",
                            !.trace = Append(@, [event |-> "yield", doc |-> c.doc])]
             ELSE prepare_docs_resume_ahead(chunker, config, source,
                                            [c EXCEPT !.gen = g])
    ELSE IF c.doc = Len(source.docs)
         THEN IF source.error # None
              THEN [c EXCEPT !.status = "raise", !.error = source.error]
              ELSE [c EXCEPT !.status = "done"]
         ELSE LET d == c.doc + 1
                  doc_chunk == source.docs[d]
                  h == ApplyHooks(config.metadata_hooks, 1, doc_chunk.metadata,
                                  doc_chunk.text, d)
                  ahead == IF d < Len(source.docs)
                           THEN ApplyHooks(config.metadata_hooks, 1,
                                           source.docs[d + 1].metadata,
                                           source.docs[d + 1].text, d + 1).events
                           ELSE <<>>
              IN  prepare_docs_resume_ahead(chunker, config, source,
                      [c EXCEPT !.doc = d, !.text = doc_chunk.text,
                                !.metadata = h.metadata, !.gen = Frame0,
                                !.trace = @ \o h.events \o ahead \o
                                    <<[event |-> "chunk", doc |-> d,
                                       metadata |-> h.metadata]>>])

\* prepare_docs from the point it is suspended at (or from the top of the
\* loop over the documents) to its next yield, its end, or the error the
\* loader raises; the loader yields source.docs and then raises source.error,
\* if any
RECURSIVE prepare_docs_resume(_, _, _, _)
prepare_docs_resume(chunker, config, source, c) ==
    IF c.gen.pc # "done"
    THEN \* for chunk in chunker.chunk(...): the chunk() generator is resumed
         LET g == Strategy_chunk(chunker, c.text, c.metadata, c.gen)
         IN  IF g.item # <<>>
             THEN [c EXCEPT !.gen = g, !.status = "yield",
                            !.trace = Append(@, [event |-> "yield", doc |-> c.doc])]
             ELSE prepare_docs_resume(chunker, config, source, [c EXCEPT !.gen = g])
    ELSE \* for doc_chunk in loader.load(source): the loader is resumed
         IF c.doc = Len(source.docs)
         THEN IF source.error # None
              THEN [c EXCEPT !.status = "raise", !.error = source.error]
              ELSE [c EXCEPT !.status = "done"]
         ELSE LET d == c.doc + 1
                  doc_chunk == source.docs[d]
                  h == ApplyHooks(config.metadata_hooks, 1, doc_chunk.metadata,
                                  doc_chunk.text, d)
              IN  prepare_docs_resume(chunker, config, source,
                      [c EXCEPT !.doc = d, !.text = doc_chunk.text,
                                !.metadata = h.metadata, !.gen = Frame0,
                                !.trace = @ \o h.events \o
                                    <<[event |-> "chunk", doc |-> d,
                                       metadata |-> h.metadata]>>])

\* chunk.to_dict(), the object json.dump writes as one line
Chunk_to_dict(chunk) ==
    [text |-> chunk.text, metadata |-> chunk.metadata, chunk_id |-> chunk.chunk_id]

\* -------------------------------------------------------------------- state
VARIABLES
    instance,   \* the strategy instance: its fields
    load,       \* how the instance's tokenizer was obtained (token strategy)
    raised,     \* the error that escaped the constructor or chunk(), or None
    text,       \* the text of the current chunk() call
    metadata,   \* the base metadata of the current chunk() call
    gen,        \* the frame of the current call's generator
    out,        \* the chunks the consumer has taken from it, in order
    resolved,   \* the last get_chunker call: its arguments and what it did
    lists,      \* the list objects metadata entries refer to: id -> elements
    mutated,    \* the chunk whose metadata the consumer has changed, or 0
    calls,      \* further chunk() calls in progress on the same instance
    pipe,       \* the prepare_docs_to_jsonl run: its arguments and position
    file,       \* the output file of that run
    direct      \* the last get_tokenizer call made by a caller itself

vars == <<instance, load, raised, text, metadata, gen, out, resolved,
          lists, mutated, calls, pipe, file, direct>>

\* what a chunk() call on its own, or a get_chunker call, does not involve
aux == <<lists, mutated, calls, pipe, file, direct>>

NoFile == [exists |-> FALSE, open |-> FALSE, lines |-> <<>>]

\* no caller has called get_tokenizer itself
NoDirect ==
    [ called |-> FALSE, name |-> None, backend |-> "installed",
      value |-> None, raised |-> None ]

AuxInit ==
    /\ lists = <<>>
    /\ mutated = 0
    /\ calls = <<>>
    /\ pipe = [pc |-> "idle"]
    /\ file = NoFile
    /\ direct = NoDirect

\* get_chunker has not been called
NotResolved ==
    [ called |-> FALSE, strategy |-> <<>>, size |-> 0, overlap |-> 0,
      tokenizer |-> None, tokenizer_name |-> None, backend |-> "installed",
      error |-> NoError, steps |-> <<>> ]

\* every way of constructing a strategy
Constructions ==
    { [self |-> CharacterChunker_init(s, o), load |-> "n/a", raised |-> None] :
          s \in Sizes, o \in Overlaps }
    \cup { TokenChunker_init(s, o, t, n, b) :
          s \in Sizes, o \in Overlaps, t \in {None, Tiktoken},
          n \in TokenizerNames, b \in Backends }
    \cup { [self |-> SentenceChunker_init(s, o), load |-> "n/a", raised |-> None] :
          s \in Sizes, o \in Overlaps }
    \cup { [self |-> NoChunker_init, load |-> "n/a", raised |-> None] }

\* a strategy has been constructed and chunk(text, metadata) called on it;
\* nothing of the generator has run yet
Init ==
    /\ \E c \in Constructions :
          /\ instance = c.self
          /\ load = c.load
          /\ raised = c.raised
    /\ text \in Texts
    /\ metadata \in Metadatas
    /\ gen = Frame0
    /\ out = <<>>
    /\ resolved = NotResolved
    /\ AuxInit

\* the consumer may take another chunk of the current call
CanResume ==
    /\ raised = None
    /\ gen.pc # "done"
    /\ Len(out) < MaxChunks

\* the consumer takes the next chunk of a character chunker's call
CharacterChunkerNext ==
    /\ instance.kind = "character"
    /\ CanResume
    /\ gen' = CharacterChunker_chunk(instance, text, metadata, gen)
    /\ out' = out \o gen'.item
    /\ UNCHANGED <<instance, load, raised, text, metadata, resolved>>
    /\ UNCHANGED aux

\* the consumer takes the next chunk of a token chunker's call
TokenChunkerNext ==
    /\ instance.kind = "token"
    /\ CanResume
    /\ gen' = TokenChunker_chunk(instance, text, metadata, gen)
    /\ out' = out \o gen'.item
    /\ UNCHANGED <<instance, load, raised, text, metadata, resolved>>
    /\ UNCHANGED aux

\* the consumer takes the next chunk of a sentence chunker's call
SentenceChunkerNext ==
    /\ instance.kind = "sentence"
    /\ CanResume
    /\ gen' = SentenceChunker_chunk(instance, text, metadata, gen)
    /\ out' = out \o gen'.item
    /\ UNCHANGED <<instance, load, raised, text, metadata, resolved>>
    /\ UNCHANGED aux

\* the consumer takes the next chunk of a pass-through chunker's call
NoChunkerNext ==
    /\ instance.kind = "none"
    /\ CanResume
    /\ gen' = NoChunker_chunk(instance, text, metadata, gen)
    /\ out' = out \o gen'.item
    /\ UNCHANGED <<instance, load, raised, text, metadata, resolved>>
    /\ UNCHANGED aux

Next ==
    \/ CharacterChunkerNext
    \/ TokenChunkerNext
    \/ SentenceChunkerNext
    \/ NoChunkerNext

Spec == Init /\ [][Next]_vars

\* ---- the resolver on its own: one get_chunker call
ResolverInit ==
    /\ instance = NoInstance
    /\ load = "n/a"
    /\ raised = None
    /\ text = <<>>
    /\ metadata = [custom_field |-> "custom_value"]
    /\ gen = Frame0
    /\ out = <<>>
    /\ resolved = NotResolved
    /\ AuxInit

\* a caller resolves a strategy and holds the instance returned
GetChunker ==
    /\ ~resolved.called
    /\ \E strategy \in Strategies, size \in Sizes, overlap \in Overlaps,
          tokenizer \in {None, Tiktoken}, tokenizer_name \in TokenizerNames,
          backend \in Backends :
         LET r == get_chunker(strategy, size, overlap, tokenizer, tokenizer_name,
                              backend)
         IN  /\ instance' = r.chunker
             /\ load' = r.load
             /\ raised' = r.error.kind
             /\ resolved' = [ called |-> TRUE, strategy |-> strategy, size |-> size,
                              overlap |-> overlap, tokenizer |-> tokenizer,
                              tokenizer_name |-> tokenizer_name, backend |-> backend,
                              error |-> r.error, steps |-> r.steps ]
             /\ UNCHANGED <<text, metadata, gen, out>>
             /\ UNCHANGED aux

ResolverNext == GetChunker

ResolverSpec == ResolverInit /\ [][ResolverNext]_vars

\* ------------------------------------------------------------ properties
Done == gen.pc = "done"

\* the window parameters are valid: size > overlap >= 0
ValidParams == instance.size > instance.overlap /\ instance.overlap >= 0

\* text[a:b] for 0 <= a <= b <= Len(text)
Span(a, b) == SubSeq(text, a + 1, b)

StartChar(k) == out[k].metadata["start_char"]
EndChar(k) == out[k].metadata["end_char"]

\* C1. Character chunker coverage: for non-empty text and size > overlap >= 0
\* the first chunk starts at 0, every later chunk starts at or before the end
\* of the chunk before it, every chunk's text is text[start_char:end_char],
\* and once the call is exhausted the last chunk ends at len(text) and every
\* character position lies in some chunk.
CharacterCoverage ==
    (instance.kind = "character" /\ text # <<>> /\ ValidParams) =>
        /\ \A k \in 1..Len(out) :
              /\ 0 <= StartChar(k) /\ StartChar(k) <= EndChar(k)
              /\ EndChar(k) <= Len(text)
              /\ out[k].text = Span(StartChar(k), EndChar(k))
              /\ k = 1 => StartChar(k) = 0
              /\ k > 1 => StartChar(k) <= EndChar(k - 1)
        /\ Done =>
              /\ Len(out) >= 1
              /\ EndChar(Len(out)) = Len(text)
              /\ \A p \in 0..(Len(text) - 1) :
                    \E k \in 1..Len(out) : StartChar(k) <= p /\ p < EndChar(k)

\* a character chunker has chunked a text into three or more overlapping
\* chunks and is exhausted
CharacterCoverageWitness ==
    /\ instance.kind = "character" /\ ValidParams /\ Done
    /\ instance.overlap >= 1
    /\ Len(out) >= 3

\* C2. Single-chunk shortcut, as claimed: a non-empty text shorter than size,
\* with 0 <= overlap < size, yields exactly one chunk, equal to the full text.
SingleChunkShortcut ==
    (instance.kind = "character" /\ text # <<>> /\ ValidParams
         /\ Len(text) < instance.size) =>
        /\ Len(out) <= 1
        /\ Done => (Len(out) = 1 /\ out[1].text = text)

Suffix(s, n) == SubSeq(s, Len(s) - n + 1, Len(s))
Prefix(s, n) == SubSeq(s, 1, n)

\* C3. Overlap correctness: for size > overlap >= 0, whenever chunk k+1 has at
\* least `overlap` characters, the last `overlap` characters of chunk k are
\* the same text positions as the first `overlap` characters of chunk k+1,
\* hence the same characters.
CharacterOverlap ==
    (instance.kind = "character" /\ ValidParams) =>
        \A k \in 1..(Len(out) - 1) :
            Len(out[k + 1].text) >= instance.overlap =>
                /\ Len(out[k].text) >= instance.overlap
                /\ EndChar(k) - instance.overlap = StartChar(k + 1)
                /\ Suffix(out[k].text, instance.overlap)
                       = Prefix(out[k + 1].text, instance.overlap)

\* two consecutive chunks share a non-empty overlap whose characters are not
\* all alike
CharacterOverlapWitness ==
    /\ instance.kind = "character" /\ ValidParams
    /\ instance.overlap >= 2
    /\ Len(out) >= 2
    /\ Len(out[2].text) >= instance.overlap
    /\ out[2].text[1] # out[2].text[2]

Windowed == {"character", "token", "sentence"}

\* C4. Index contiguity: for the character, token and sentence chunkers and
\* any input, the k-th chunk emitted by a call (counting from 0) has
\* chunk_index = k.
IndexContiguity ==
    instance.kind \in Windowed =>
        \A k \in 1..Len(out) : out[k].metadata["chunk_index"] = k - 1

\* a token chunker with a tokenizer has emitted a third chunk
IndexContiguityWitness ==
    /\ instance.kind = "token" /\ instance.tokenizer # None /\ ValidParams
    /\ Len(out) >= 3

\* C5. chunk_id derivation: every chunk of the character, token or sentence
\* chunker has chunk_id "<source_id>_chunk_<chunk_index>", source_id being
\* metadata["source_id"] or "doc" when absent; so no two chunks of a call
\* share a chunk_id.
ChunkIdDerivation ==
    instance.kind \in Windowed =>
        /\ \A k \in 1..Len(out) :
              out[k].chunk_id =
                  (IF "source_id" \in DOMAIN metadata
                   THEN metadata["source_id"] ELSE "doc")
                  \o "_chunk_" \o ToString(out[k].metadata["chunk_index"])
        /\ \A j, k \in 1..Len(out) : j # k => out[j].chunk_id # out[k].chunk_id

\* a call without a source_id has emitted two chunks, ids doc_chunk_0 and
\* doc_chunk_1
ChunkIdDerivationWitness ==
    /\ instance.kind \in Windowed
    /\ "source_id" \notin DOMAIN metadata
    /\ Len(out) >= 2
    /\ out[1].chunk_id = "doc_chunk_0" /\ out[2].chunk_id = "doc_chunk_1"

\* C6. Non-empty chunk text, as claimed: for every strategy and every
\* size > overlap >= 0 no emitted chunk has empty text, except the
\* pass-through chunk of an empty document.
NonEmptyChunkText ==
    (instance.kind = "none" \/ ValidParams) =>
        \A k \in 1..Len(out) :
            out[k].text = <<>> => (instance.kind = "none" /\ text = <<>>)

\* C7. Pass-through identity: NoChunker yields exactly one chunk for any
\* text, the empty one included; its text is the input text, its metadata
\* the base metadata with no key added, its chunk_id the source_id (or
\* "doc" when absent), not an indexed id.
PassThroughIdentity ==
    instance.kind = "none" =>
        /\ Len(out) <= 1
        /\ gen.pc # "start" => Len(out) = 1
        /\ \A k \in 1..Len(out) :
              /\ out[k].text = text
              /\ out[k].metadata = metadata
              /\ out[k].chunk_id =
                     (IF "source_id" \in DOMAIN metadata
                      THEN metadata["source_id"] ELSE "doc")

\* the pass-through of an empty document without a source_id is exhausted
PassThroughIdentityWitness ==
    /\ instance.kind = "none" /\ Done
    /\ text = <<>> /\ "source_id" \notin DOMAIN metadata
    /\ Len(out) = 1 /\ out[1].chunk_id = "doc"

\* the first n chunks of CharacterChunker.chunk(t, md) resumed from frame g
RECURSIVE CharacterChunks(_, _, _, _, _)
CharacterChunks(self, t, md, g, n) ==
    IF n = 0 \/ g.pc = "done" THEN <<>>
    ELSE LET g2 == CharacterChunker_chunk(self, t, md, g)
         IN  g2.item \o CharacterChunks(self, t, md, g2, n - 1)

\* the tokenizer could not be had: the name was None, or loading it raised
Unavailable == {"name_none", "ImportError", "ValueError"}

\* C8. Token fallback: a TokenChunker whose tokenizer is unavailable raises
\* neither at construction nor in chunk(), and its calls yield exactly the
\* chunks CharacterChunker(size, overlap).chunk yields for the same text and
\* metadata, no more and no fewer; so a non-empty text yields a chunk.
TokenFallback ==
    load \in Unavailable =>
        /\ raised = None
        /\ instance.kind = "token" /\ instance.tokenizer = None
        /\ LET c == CharacterChunker_init(instance.size, instance.overlap)
           IN  /\ out = CharacterChunks(c, text, metadata, Frame0, Len(out))
               /\ Done =>
                     /\ out = CharacterChunks(c, text, metadata, Frame0, Len(out) + 1)
                     /\ text # <<>> => Len(out) >= 1

\* a token chunker whose tokenizer name was invalid has chunked a text into
\* several character windows
TokenFallbackWitness ==
    /\ load = "ValueError" /\ instance.kind = "token" /\ ValidParams
    /\ Done /\ Len(out) >= 2
    /\ "start_char" \in DOMAIN out[2].metadata

\* C9. Sentence non-splitting of short input, as claimed: whenever the split
\* sentences have total length <= size the sentence chunker yields exactly
\* one chunk, index 0, the sentences joined by single spaces.
SentenceShortInputAnyText ==
    (instance.kind = "sentence"
         /\ SumLen(SplitSentences(text)) <= instance.size) =>
        /\ Len(out) <= 1
        /\ Done =>
              /\ Len(out) = 1
              /\ out[1].metadata["chunk_index"] = 0
              /\ out[1].text = JoinSpace(SplitSentences(text))

\* C9, amended: the same for every non-empty text (an empty text yields no
\* chunk).
SentenceShortInput ==
    (instance.kind = "sentence" /\ text # <<>>
         /\ SumLen(SplitSentences(text)) <= instance.size) =>
        /\ Len(out) <= 1
        /\ Done =>
              /\ Len(out) = 1
              /\ out[1].metadata["chunk_index"] = 0
              /\ out[1].text = JoinSpace(SplitSentences(text))

\* two sentences that together fill the window exactly came out as one chunk
SentenceShortInputWitness ==
    /\ instance.kind = "sentence" /\ Done
    /\ Len(SplitSentences(text)) = 2
    /\ \A i \in 1..2 : SplitSentences(text)[i] # <<>>
    /\ SumLen(SplitSentences(text)) = instance.size
    /\ Len(out) = 1 /\ Len(out[1].text) = instance.size + 1

\* a and b are the same string up to the case of their letters
EqualsIgnoreCase(a, b) ==
    /\ Len(a) = Len(b)
    /\ \A i \in 1..Len(a) :
          \/ a[i] = b[i]
          \/ \E j \in 1..26 : {a[i], b[i]} = {UpperLetters[j], LowerLetters[j]}

BuiltinKinds ==
    { <<Name_character, "character">>, <<Name_token, "token">>,
      <<Name_sentence, "sentence">>, <<Name_none, "none">> }

\* C10. Resolver built-ins: a strategy string equal, ignoring letter case, to
\* 'character', 'token', 'sentence' or 'none' resolves to the corresponding
\* chunker, with no step of external resolution and no error (also when the
\* tokenizer backend is unavailable), and a windowed chunker carries the size
\* and overlap passed in.
ResolverBuiltins ==
    resolved.called =>
        \A b \in BuiltinKinds :
            EqualsIgnoreCase(resolved.strategy, b[1]) =>
                /\ resolved.error = NoError /\ raised = None
                /\ resolved.steps = <<>>
                /\ instance.kind = b[2]
                /\ b[2] \in Windowed =>
                      /\ instance.size = resolved.size
                      /\ instance.overlap = resolved.overlap

\* 'TOKEN' was resolved where the tokenization library is missing: a token
\* chunker without tokenizer came back
ResolverBuiltinsWitness ==
    /\ resolved.called
    /\ resolved.strategy = <<"T", "O", "K", "E", "N">>
    /\ resolved.backend = "missing" /\ resolved.tokenizer = None
    /\ resolved.tokenizer_name = "cl100k_base"
    /\ instance.kind = "token" /\ instance.tokenizer = None
    /\ instance.size = 2 /\ instance.overlap = 1
    /\ raised = None

\* the strategy is none of the four built-in names, whatever the case of its
\* letters
ExternalStrategy(strategy) ==
    \A b \in BuiltinKinds : ~EqualsIgnoreCase(strategy, b[1])

\* the error of the last step of external resolution that was attempted
ExternalCauses ==
    [ s \in {<<"import">>, <<"import", "getattr">>,
              <<"import", "getattr", "kwargs">>,
              <<"import", "getattr", "kwargs", "noargs">>} |->
        CASE s = <<"import">> -> {"ValueError", "ModuleNotFoundError"}
          [] s = <<"import", "getattr">> -> {"AttributeError"}
          [] s = <<"import", "getattr", "kwargs">> -> {"RuntimeError"}
          [] OTHER -> {"TypeError", "RuntimeError"} ]

\* C11. Resolver error wrapping: for a strategy that is not a built-in name,
\* get_chunker either returns an instance of the external class or raises
\* exactly a ValueError that names the strategy, lists the four built-in
\* names and carries the underlying cause (module not importable, attribute
\* missing, both construction attempts failing); and no get_chunker call lets
\* an error of another type escape.
ResolverErrorWrapping ==
    resolved.called =>
        /\ raised \in {None, "ValueError"}
        /\ ExternalStrategy(resolved.strategy) =>
              \/ /\ raised = None /\ resolved.error = NoError
                 /\ instance.kind = "custom"
              \/ /\ raised = "ValueError"
                 /\ instance = NoInstance
                 /\ resolved.error.kind = "ValueError"
                 /\ resolved.error.strategy = resolved.strategy
                 /\ resolved.error.supported =
                        <<Name_character, Name_token, Name_sentence, Name_none>>
                 /\ resolved.error.cause \in ExternalCauses[resolved.steps]

\* the class was found and both ways of constructing it raised TypeError: the
\* TypeError of the second attempt came back wrapped in a ValueError
ResolverErrorWrappingWitness ==
    /\ resolved.called
    /\ resolved.strategy =
          <<"m", "y", "p", "a", "c", "k", "a", "g", "e", ".",
            "B", "r", "o", "k", "e", "n", "C", "h", "u", "n", "k", "e", "r">>
    /\ resolved.steps = <<"import", "getattr", "kwargs", "noargs">>
    /\ raised = "ValueError"
    /\ resolved.error.cause = "TypeError"

\* the keys a strategy adds to the metadata of its chunks
OwnKeys(self) ==
    CASE self.kind = "character" -> {"chunk_index", "start_char", "end_char"}
      [] self.kind = "token" /\ self.tokenizer # None ->
             {"chunk_index", "start_token", "end_token"}
      [] self.kind = "token" /\ self.tokenizer = None ->
             {"chunk_index", "start_char", "end_char"}
      [] self.kind = "sentence" -> {"chunk_index"}
      [] OTHER -> {}

\* C20. Metadata preservation and enrichment, as claimed: each chunk's
\* metadata has every key of the base metadata with its original value, plus
\* exactly the chunker's own keys.
MetadataEnrichmentAnyBase ==
    \A k \in 1..Len(out) :
        /\ DOMAIN out[k].metadata = DOMAIN metadata \cup OwnKeys(instance)
        /\ \A key \in DOMAIN metadata : out[k].metadata[key] = metadata[key]

\* C20, amended: each chunk's metadata has every key of the base metadata,
\* with its original value unless the key is one of the chunker's own keys,
\* plus exactly the chunker's own keys, chunk_index holding the chunk's index
\* (a base entry under one of the chunker's own keys is overwritten).
MetadataEnrichment ==
    \A k \in 1..Len(out) :
        /\ DOMAIN out[k].metadata = DOMAIN metadata \cup OwnKeys(instance)
        /\ \A key \in DOMAIN metadata \ OwnKeys(instance) :
              out[k].metadata[key] = metadata[key]
        /\ "chunk_index" \in OwnKeys(instance) =>
              out[k].metadata["chunk_index"] = k - 1

\* a sentence chunker has emitted two chunks from a base metadata that had a
\* chunk_index of its own
MetadataEnrichmentWitness ==
    /\ instance.kind = "sentence" /\ Done
    /\ Len(out) >= 2
    /\ "chunk_index" \in DOMAIN metadata
    /\ out[2].metadata["chunk_index"] # metadata["chunk_index"]
    /\ out[2].metadata["source_id"] = metadata["source_id"]

\* ---- full consumption of a character or token chunker built with valid
\* window parameters: the consumer keeps calling next() until exhaustion
TermInit ==
    /\ Init
    /\ instance.kind \in {"character", "token"}
    /\ ValidParams

TermNext ==
    \/ CharacterChunkerNext
    \/ TokenChunkerNext

TermSpec == TermInit /\ [][TermNext]_vars

\* the sequence the window slides over: the tokens for a token chunker with a
\* tokenizer, the characters otherwise
Windowable ==
    IF instance.kind = "token" /\ ~TokenChunker_fallback(instance, text)
    THEN TiktokenWrapper_encode(text)
    ELSE text

\* where the window of the k-th chunk started
WindowStart(k) ==
    IF "start_token" \in DOMAIN out[k].metadata
    THEN out[k].metadata["start_token"]
    ELSE out[k].metadata["start_char"]

\* C14. Termination with valid parameters: with size > overlap >= 0, for a
\* character chunker's or a token chunker's call (with or without tokenizer),
\* the window cursor starts at 0 and increases by exactly size - overlap,
\* which is positive, from each chunk to the next, and stays below the length
\* of the sequence; so no more chunks come out than the sequence has
\* positions, the call stops by exhaustion only (never by the consumer's
\* bound), and nothing is raised.
Termination ==
    /\ raised = None
    /\ instance.size - instance.overlap > 0
    /\ \A k \in 1..Len(out) :
          /\ WindowStart(k) = (k - 1) * (instance.size - instance.overlap)
          /\ WindowStart(k) < Len(Windowable)
          /\ k > 1 => WindowStart(k) > WindowStart(k - 1)
    /\ Len(out) <= Len(Windowable)
    /\ Done \/ CanResume

\* a token chunker without tokenizer was consumed to exhaustion: it emitted
\* one chunk per character position of the text
TerminationWitness ==
    /\ instance.kind = "token" /\ instance.tokenizer = None
    /\ ValidParams /\ Done
    /\ Len(text) = MaxLen /\ Len(out) = MaxLen
    /\ instance.size - instance.overlap = 1

\* ---- several chunk() calls in progress on one instance, their next() calls
\* interleaved in any order
CallIds == {1, 2}

CallTexts ==
    { <<>>, <<"a">>, <<"a", ".", " ", "a">>, <<"a", "a", ".", " ", "a">> }

\* a chunk(text, metadata) call of which nothing has run yet
Call(t, m) == [text |-> t, metadata |-> m, gen |-> Frame0, out |-> <<>>]

InterleaveInit ==
    /\ instance \in {c.self : c \in {d \in Constructions : d.raised = None}}
    /\ load = "n/a"
    /\ raised = None
    /\ text = <<>>
    /\ metadata = [custom_field |-> "custom_value"]
    /\ gen = Frame0
    /\ out = <<>>
    /\ resolved = NotResolved
    /\ lists = <<>>
    /\ mutated = 0
    /\ calls \in [CallIds -> {Call(t, m) : t \in CallTexts, m \in Metadatas}]
    /\ pipe = [pc |-> "idle"]
    /\ file = NoFile
    /\ direct = NoDirect

\* the consumer of one of the calls takes its next chunk
CallStep ==
    /\ \E i \in CallIds :
          /\ calls[i].gen.pc # "done"
          /\ Len(calls[i].out) < MaxChunks
          /\ LET c == calls[i]
                 g == Strategy_chunk(instance, c.text, c.metadata, c.gen)
             IN  calls' = [calls EXCEPT ![i] =
                              [c EXCEPT !.gen = g, !.out = c.out \o g.item]]
    /\ instance' = chunk_writes(instance)
    /\ UNCHANGED <<direct, load, raised, text, metadata, gen, out, resolved,
                   lists, mutated, pipe, file>>

\* the consumer of one of the calls abandons it, exhausted or not, and calls
\* chunk() again with the same text and metadata
CallAgain ==
    /\ \E i \in CallIds :
          /\ calls[i].gen.pc # "start"
          /\ calls' = [calls EXCEPT ![i] = Call(calls[i].text, calls[i].metadata)]
    /\ UNCHANGED <<direct, instance, load, raised, text, metadata, gen, out, resolved,
                   lists, mutated, pipe, file>>

InterleaveNext ==
    \/ CallStep
    \/ CallAgain

InterleaveSpec == InterleaveInit /\ [][InterleaveNext]_vars

\* the first n chunks of a call that runs alone, from frame g on
RECURSIVE SolitaryRun(_, _, _, _, _)
SolitaryRun(self, t, md, g, n) ==
    IF n = 0 \/ g.pc = "done" THEN <<>>
    ELSE LET g2 == Strategy_chunk(self, t, md, g)
         IN  g2.item \o SolitaryRun(self, t, md, g2, n - Len(g2.item))

IsPrefix(a, b) == Len(a) <= Len(b) /\ SubSeq(b, 1, Len(a)) = a

ListRef(id) == [ref |-> id]

\* the keys whose entries are lists
ListKeys == {"csv_columns"}

\* the metadata CSVLoader attaches to a row, and the list object it refers to
CsvMetadata ==
    [source_id |-> "data.csv_row_0", file_type |-> "csv", csv_columns |-> ListRef(1)]
CsvLists == (1 :> <<"name", "city">>)

\* the mapping md as a reader sees it, list entries read through the heap ls
ViewOf(md, ls) ==
    [key \in DOMAIN md |-> IF key \in ListKeys THEN ls[md[key].ref] ELSE md[key]]

IsolationInit ==
    /\ instance \in {c.self : c \in {d \in Constructions : d.raised = None}}
    /\ load = "n/a"
    /\ raised = None
    /\ text \in CallTexts
    /\ metadata = CsvMetadata
    /\ gen = Frame0
    /\ out = <<>>
    /\ resolved = NotResolved
    /\ lists = CsvLists
    /\ mutated = 0
    /\ calls = <<>>
    /\ pipe = [pc |-> "idle"]
    /\ file = NoFile
    /\ direct = NoDirect

\* chunk.metadata[key] = value on a chunk taken: a key is reassigned or
\* added
MetadataAssign ==
    /\ mutated = 0
    /\ \E k \in 1..Len(out), key \in {"file_type", "tag"} :
          /\ out' = [out EXCEPT ![k].metadata = DictSet(@, key, "changed")]
          /\ mutated' = k
    /\ UNCHANGED <<direct, instance, load, raised, text, metadata, gen, resolved,
                   lists, calls, pipe, file>>

\* del chunk.metadata["file_type"] on a chunk taken
MetadataDelete ==
    /\ mutated = 0
    /\ \E k \in 1..Len(out) :
          /\ out' = [out EXCEPT ![k].metadata =
                        [key \in DOMAIN @ \ {"file_type"} |-> @[key]]]
          /\ mutated' = k
    /\ UNCHANGED <<direct, instance, load, raised, text, metadata, gen, resolved,
                   lists, calls, pipe, file>>

\* chunk.metadata["csv_columns"] = ["other"] on a chunk taken: the
\* entry is given a new list object
MetadataReplaceList ==
    /\ mutated = 0
    /\ \E k \in 1..Len(out) :
          /\ out' = [out EXCEPT ![k].metadata = DictSet(@, "csv_columns", ListRef(2))]
          /\ mutated' = k
    /\ lists' = lists @@ (2 :> <<"other">>)
    /\ UNCHANGED <<direct, instance, load, raised, text, metadata, gen, resolved,
                   calls, pipe, file>>

\* chunk.metadata["csv_columns"].append("extra") on a chunk taken: the
\* list object the entry refers to is changed in place
MetadataAppend ==
    /\ mutated = 0
    /\ \E k \in 1..Len(out) :
          /\ LET id == out[k].metadata["csv_columns"].ref
             IN  lists' = [lists EXCEPT ![id] = Append(@, "extra")]
          /\ mutated' = k
    /\ UNCHANGED <<direct, instance, load, raised, text, metadata, gen, out, resolved,
                   calls, pipe, file>>

IsolationNext ==
    \/ CharacterChunkerNext
    \/ TokenChunkerNext
    \/ SentenceChunkerNext
    \/ NoChunkerNext
    \/ MetadataAssign
    \/ MetadataDelete
    \/ MetadataReplaceList
    \/ MetadataAppend

IsolationSpec == IsolationInit /\ [][IsolationNext]_vars

\* C12. Metadata isolation, as claimed: the base metadata passed to chunk()
\* reads as it did before the call, whatever the consumer has done to a chunk
\* it took (assigning, adding or deleting a key, replacing a list entry or
\* changing it in place), and every other chunk of the call, taken before or
\* after, still shows every base entry unchanged.
MetadataIsolation ==
    /\ ViewOf(metadata, lists) = ViewOf(CsvMetadata, CsvLists)
    /\ \A k \in 1..Len(out) :
          k # mutated =>
              \A key \in DOMAIN CsvMetadata :
                  /\ key \in DOMAIN out[k].metadata
                  /\ ViewOf(out[k].metadata, lists)[key] =
                        ViewOf(CsvMetadata, CsvLists)[key]

\* ---- a run of prepare_docs_to_jsonl, called as the command line does it,
\* inside try/except
\* the chunk_strategy values of the runs drawn
PipeStrategies ==
    { Name_character, Name_token, Name_sentence, Name_none,
      <<"b", "o", "g", "u", "s", "_", "x", "y", "z">> }

\* the metadata_hooks lists of the runs drawn; "not_callable" is an entry
\* that is no function
HookLists ==
    { <<>>, <<"add_timestamp">>, <<"hook1", "hook2">>,
      <<"hook2", "not_callable", "hook1">> }

\* the documents a loader yields
Doc(t, id) == [text |-> t, metadata |-> [source_id |-> id, file_type |-> "text"]]
DocEmpty == Doc(<<>>, "d0")
DocCommas == Doc(<<"a", ",", "a">>, "d1")
DocSentences == Doc(<<"a", ".", " ", "a">>, "d2")

\* what loading the source does: the documents yielded, then the error
\* raised by the loader, if any
Sources ==
    { [docs |-> ds, error |-> e] :
        ds \in { <<>>, <<DocCommas>>, <<DocCommas, DocSentences>>,
                  <<DocEmpty, DocCommas>>, <<DocSentences, DocCommas>> },
        e \in {None, "OSError"} }

\* the output file as an earlier run left it
OldFile == [exists |-> TRUE, open |-> FALSE, lines |-> <<"old">>]

ErrorOf(kind) == [NoError EXCEPT !.kind = kind]

PipelineInit ==
    /\ instance = NoInstance
    /\ load = "n/a"
    /\ raised = None
    /\ text = <<>>
    /\ metadata = <<>>
    /\ gen = Stop(Frame0)
    /\ out = <<>>
    /\ resolved = NotResolved
    /\ lists = <<>>
    /\ mutated = 0
    /\ calls = <<>>
    /\ direct = NoDirect
    /\ file \in {NoFile, OldFile}
    /\ \E strategy \in PipeStrategies, size \in Sizes, overlap \in Overlaps,
          hooks \in HookLists, backend \in Backends, source \in Sources,
          tokenizer_name \in TokenizerNames,
          chunker \in {NoInstance, CommaChunker_init(1000, 200)} :
          /\ backend = "missing" => strategy = Name_token
          /\ tokenizer_name # "cl100k_base" => strategy = Name_token
          /\ pipe = [ pc |-> "created",
                      config |-> [ chunk_strategy |-> strategy, chunk_size |-> size,
                                   chunk_overlap |-> overlap,
                                   tokenizer_name |-> tokenizer_name,
                                   metadata_hooks |-> hooks ],
                      chunker |-> chunker, tokenizer |-> None,
                      backend |-> backend, source |-> source, prior |-> file,
                      doc |-> 0, trace |-> <<>>,
                      exit |-> "running", stderr |-> NoError ]

\* prepare_docs(...) creates the generator without running any of it, and
\* JSONLSink.write opens the output file for writing
OpenOutput ==
    /\ pipe.pc = "created"
    /\ file' = [exists |-> TRUE, open |-> TRUE, lines |-> <<>>]
    /\ pipe' = [pipe EXCEPT !.pc = "open"]
    /\ UNCHANGED <<direct, instance, load, raised, text, metadata, gen, out, resolved,
                   lists, mutated, calls>>

\* the sink's for loop has called next() on the prepare_docs generator, which
\* ended as cursor c says: a chunk is written as a line; at the end the file
\* is closed and the command returns; an error closes the file and reaches
\* the command's except clause, which prints it and exits with status 1
SinkTakes(c) ==
    /\ text' = c.text
    /\ metadata' = c.metadata
    /\ gen' = c.gen
    /\ out' = out \o c.gen.item
    /\ raised' = IF c.status = "raise" THEN c.error ELSE None
    /\ file' = IF c.status = "yield"
               THEN [file EXCEPT !.lines = Append(@, Chunk_to_dict(c.gen.item[1]))]
               ELSE [file EXCEPT !.open = FALSE]
    /\ pipe' = [pipe EXCEPT
                  !.pc = CASE c.status = "yield" -> "running"
                           [] c.status = "done" -> "done"
                           [] OTHER -> "failed",
                  !.doc = c.doc,
                  !.trace = c.trace,
                  !.exit = CASE c.status = "yield" -> "running"
                             [] c.status = "done" -> "exit_0"
                             [] OTHER -> "exit_1",
                  !.stderr = IF c.status = "raise" THEN ErrorOf(c.error) ELSE NoError]

\* the first next(): prepare_docs runs from its top, obtaining the tokenizer
\* and the chunker, to its first yield
PrepareDocsStart ==
    /\ pipe.pc = "open"
    /\ LET tokenizer == prepare_docs_tokenizer(pipe.tokenizer, pipe.config,
                                               pipe.backend)
           c == prepare_docs_chunker(pipe.chunker, pipe.config, tokenizer,
                                     pipe.backend)
       IN  /\ resolved' =
                  IF c.called
                  THEN [ called |-> TRUE, strategy |-> pipe.config.chunk_strategy,
                         size |-> pipe.config.chunk_size,
                         overlap |-> pipe.config.chunk_overlap,
                         tokenizer |-> tokenizer,
                         tokenizer_name |-> pipe.config.tokenizer_name,
                         backend |-> pipe.backend,
                         error |-> c.r.error, steps |-> c.r.steps ]
                  ELSE resolved
           /\ instance' = c.r.chunker
           /\ load' = c.r.load
           /\ IF c.r.error.kind # None
              THEN /\ raised' = c.r.error.kind
                   /\ file' = [file EXCEPT !.open = FALSE]
                   /\ pipe' = [pipe EXCEPT !.pc = "failed", !.exit = "exit_1",
                                           !.stderr = c.r.error]
                   /\ UNCHANGED <<text, metadata, gen, out>>
              ELSE SinkTakes(prepare_docs_resume(c.r.chunker, pipe.config,
                                                 pipe.source, Cursor0))
    /\ UNCHANGED <<direct, lists, mutated, calls>>

\* a later next(): prepare_docs is resumed after its yield
PrepareDocsResume ==
    /\ pipe.pc = "running"
    /\ Len(out) < MaxChunks
    /\ SinkTakes(prepare_docs_resume(instance, pipe.config, pipe.source,
                     [ doc |-> pipe.doc, text |-> text, metadata |-> metadata,
                       gen |-> gen, trace |-> pipe.trace, status |-> "yield",
                       error |-> None ]))
    /\ UNCHANGED <<direct, instance, load, resolved, lists, mutated, calls>>

PipelineNext ==
    \/ OpenOutput
    \/ PrepareDocsStart
    \/ PrepareDocsResume

PipelineSpec == PipelineInit /\ [][PipelineNext]_vars

\* C15. All-or-nothing output, as claimed: when the run has failed, at
\* strategy resolution, at loading or at a later document, the output file is
\* as it was before the run (absent, or holding what it held), never created,
\* truncated or holding some of the records only; and the command has printed
\* the error and exited with a non-zero status.
AllOrNothingOutput ==
    pipe.pc = "failed" =>
        /\ file = pipe.prior
        /\ pipe.exit = "exit_1"
        /\ pipe.stderr.kind # None

\* the chunks of the documents from the d-th on, each chunked on its own by
\* `chunker` after the hooks (at most MaxChunks of any one document)
RECURSIVE DocsChunks(_, _, _, _)
DocsChunks(chunker, hooks, docs, d) ==
    IF d > Len(docs) THEN <<>>
    ELSE SolitaryRun(chunker, docs[d].text,
                     ApplyHooks(hooks, 1, docs[d].metadata, docs[d].text, d).metadata,
                     Frame0, MaxChunks)
         \o DocsChunks(chunker, hooks, docs, d + 1)

\* the first next() on the prepare_docs generator has been made
Started == pipe.pc \in {"running", "done", "failed"}

\* C16. Custom chunker override: when a chunker instance is passed, it is the
\* chunker in use, get_chunker is never called (so an unresolvable strategy
\* name in the config raises nothing) and the chunks emitted are those the
\* instance yields for the loaded documents in order, all of them once the
\* run is done; when none is passed, get_chunker has been called with the
\* config's strategy, size and overlap, its instance is the one in use, and
\* its error, if any, is the run's error.
CustomChunkerOverride ==
    Started =>
        IF pipe.chunker # NoInstance
        THEN /\ resolved = NotResolved
             /\ instance = pipe.chunker
             /\ raised \in {None, pipe.source.error}
             /\ IsPrefix(out, DocsChunks(pipe.chunker, pipe.config.metadata_hooks,
                                         pipe.source.docs, 1))
             /\ pipe.pc = "done" =>
                   out = DocsChunks(pipe.chunker, pipe.config.metadata_hooks,
                                    pipe.source.docs, 1)
        ELSE /\ resolved.called
             /\ resolved.strategy = pipe.config.chunk_strategy
             /\ resolved.size = pipe.config.chunk_size
             /\ resolved.overlap = pipe.config.chunk_overlap
             /\ resolved.error.kind # None =>
                   (pipe.pc = "failed" /\ raised = resolved.error.kind /\ out = <<>>)
             /\ resolved.error.kind = None =>
                   /\ instance.kind \in {"character", "token", "sentence", "none"}
                   /\ IsPrefix(out, DocsChunks(instance, pipe.config.metadata_hooks,
                                               pipe.source.docs, 1))

\* a run given a comma chunker and a config whose strategy cannot be
\* resolved is done: two documents came out as three comma-split chunks
CustomChunkerOverrideWitness ==
    /\ pipe.pc = "done"
    /\ pipe.chunker.kind = "comma"
    /\ pipe.config.chunk_strategy = <<"b", "o", "g", "u", "s", "_", "x", "y", "z">>
    /\ Len(pipe.source.docs) = 2
    /\ Len(out) = 3
    /\ \A k \in 1..3 : out[k].metadata["split_method"] = "comma"

\* the callable entries of the configured hooks, in list order
CallableHooks == SelectSeq(pipe.config.metadata_hooks, Callable)

\* C17. Metadata hook chaining: chunker.chunk is called for a document only
\* right after one call of every callable entry of config.metadata_hooks for
\* that document, made in list order, the first given the loader's metadata
\* and each later one the metadata the hook before it returned; the chunker
\* is given what the last one returned; no hook is called for a document once
\* its chunking has begun; and every chunk emitted carries the keys every
\* hook adds.
HookChaining ==
    Started =>
        LET trace == pipe.trace
            n == Len(CallableHooks)
        IN  /\ \A i \in 1..Len(trace) :
                  trace[i].event = "chunk" =>
                      LET d == trace[i].doc
                      IN  /\ i > n
                          /\ \A j \in 1..n :
                                LET e == trace[i - n + j - 1]
                                IN  /\ e.event = "hook" /\ e.doc = d
                                    /\ e.hook = CallableHooks[j]
                                    /\ e.given =
                                          IF j = 1 THEN pipe.source.docs[d].metadata
                                          ELSE trace[i - n + j - 2].returned
                                    /\ e.returned = Hook(e.hook, e.given,
                                                         pipe.source.docs[d].text)
                          /\ trace[i].metadata =
                                IF n = 0 THEN pipe.source.docs[d].metadata
                                ELSE trace[i - 1].returned
            /\ \A i, j \in 1..Len(trace) :
                  (i < j /\ trace[i].event = "chunk" /\ trace[j].event = "hook") =>
                      trace[j].doc > trace[i].doc
            /\ Cardinality({i \in 1..Len(trace) : trace[i].event = "hook"}) =
                  n * Cardinality({i \in 1..Len(trace) : trace[i].event = "chunk"})
            /\ \A k \in 1..Len(out), j \in 1..n :
                  HookKeys(CallableHooks[j]) \subseteq DOMAIN out[k].metadata

\* with hooks [hook2, <not callable>, hook1], hook1 was handed what hook2
\* returned for the second document, whose chunk carries both keys
HookChainingWitness ==
    /\ pipe.pc = "done"
    /\ pipe.config.metadata_hooks = <<"hook2", "not_callable", "hook1">>
    /\ Len(pipe.source.docs) = 2
    /\ \E i \in 1..Len(pipe.trace) :
          /\ pipe.trace[i].event = "hook" /\ pipe.trace[i].doc = 2
          /\ pipe.trace[i].hook = "hook1"
          /\ "hook2" \in DOMAIN pipe.trace[i].given
    /\ Len(out) >= 2
    /\ {"hook1", "hook2"} \subseteq DOMAIN out[Len(out)].metadata

\* the config's strategy is the character strategy and no chunker was passed
CharacterRun ==
    /\ pipe.chunker = NoInstance
    /\ EqualsIgnoreCase(pipe.config.chunk_strategy, Name_character)

\* the number of chunks of document d emitted so far
ChunksOfDoc(d) ==
    Cardinality({i \in 1..Len(pipe.trace) :
                    pipe.trace[i].event = "yield" /\ pipe.trace[i].doc = d})

\* the document the k-th chunk emitted belongs to
DocOfChunk(k) ==
    LET IsYield(e) == e.event = "yield"
    IN  SelectSeq(pipe.trace, IsYield)[k].doc

\* C18. Degenerate window parameters are handled, as claimed: with
\* chunk_overlap >= chunk_size and the character strategy, either the
\* configuration is rejected with an error before any chunk, or it is clamped
\* so that the window advances by at least one character per chunk; either
\* way a document of n characters never gives more than n chunks.
DegenerateWindowHandled ==
    (Started /\ CharacterRun
         /\ pipe.config.chunk_overlap >= pipe.config.chunk_size) =>
        \/ pipe.pc = "failed"
        \/ \A d \in 1..Len(pipe.source.docs) :
              ChunksOfDoc(d) <= Len(pipe.source.docs[d].text)

\* C19. Negative overlap is handled, as claimed: with chunk_size > 0,
\* chunk_overlap < 0 and the character strategy, either the run fails with an
\* error, or every chunk of a document after its first starts at or before
\* the end of the chunk before it, so that no character is skipped, and once
\* the run is done every non-empty document has given at least one chunk,
\* the last of which ends at the end of its text.
NegativeOverlapHandled ==
    (Started /\ CharacterRun
         /\ pipe.config.chunk_size > 0 /\ pipe.config.chunk_overlap < 0) =>
        \/ pipe.pc = "failed"
        \/ /\ \A k \in 2..Len(out) :
                  DocOfChunk(k) = DocOfChunk(k - 1) =>
                      out[k].metadata["start_char"] <= out[k - 1].metadata["end_char"]
           /\ pipe.pc = "done" =>
                  \A d \in 1..Len(pipe.source.docs) :
                      pipe.source.docs[d].text # <<>> =>
                          \E k \in 1..Len(out) :
                              /\ DocOfChunk(k) = d
                              /\ k = Len(out) \/ DocOfChunk(k + 1) # d
                              /\ out[k].metadata["end_char"] =
                                    Len(pipe.source.docs[d].text)

\* C21. Stop at the text end, as claimed: for a non-empty text and
\* size > overlap >= 0, the character chunker emits no chunk after the first
\* one whose window reaches the end of the text (start + size >= len(text)),
\* so at most one chunk has end_char = len(text), and once the call is
\* exhausted exactly one, the last.
StopAtTextEnd ==
    (instance.kind = "character" /\ text # <<>> /\ ValidParams) =>
        /\ \A k \in 1..(Len(out) - 1) :
              StartChar(k) + instance.size < Len(text)
        /\ Cardinality({k \in 1..Len(out) : EndChar(k) = Len(text)}) <= 1
        /\ Done =>
              /\ Len(out) >= 1
              /\ EndChar(Len(out)) = Len(text)

StartToken(k) == out[k].metadata["start_token"]
EndToken(k) == out[k].metadata["end_token"]

\* C22. Token windows: with a working tokenizer, T = encode(text) and
\* size > overlap >= 0, the k-th chunk (counting from 0) has
\* start_token = k*(size - overlap), end_token = min(start_token + size,
\* len(T)) and text = decode(T[start_token:end_token]); every window starts
\* at or before the end of the one before it; once the call is exhausted the
\* last chunk ends at len(T); a text of zero tokens yields no chunk.
TokenWindows ==
    (instance.kind = "token" /\ instance.tokenizer # None /\ ValidParams) =>
        LET T == TiktokenWrapper_encode(text)
            step == instance.size - instance.overlap
        IN  /\ T = <<>> => out = <<>>
            /\ \A k \in 1..Len(out) :
                  /\ StartToken(k) = (k - 1) * step
                  /\ StartToken(k) < Len(T)
                  /\ EndToken(k) = Min(StartToken(k) + instance.size, Len(T))
                  /\ out[k].text =
                        TiktokenWrapper_decode(SubSeq(T, StartToken(k) + 1, EndToken(k)))
                  /\ k > 1 => StartToken(k) <= EndToken(k - 1)
            /\ (Done /\ T # <<>>) =>
                  /\ Len(out) >= 1
                  /\ EndToken(Len(out)) = Len(T)

\* a token chunker with a tokenizer has chunked, into two or more overlapping
\* windows, a text in which a token stands for more than one character
TokenWindowsWitness ==
    /\ instance.kind = "token" /\ instance.tokenizer # None /\ ValidParams
    /\ instance.overlap >= 1
    /\ Done
    /\ Len(out) >= 2
    /\ Len(TiktokenWrapper_encode(text)) < Len(text)
    /\ EndToken(Len(out)) < StartToken(Len(out)) + instance.size

\* ---- a sentence chunker's call on a text of several sentences
SentencePieces == { <<".">>, <<"a", ".">>, <<"a", "a", ".">> }

\* texts of up to MaxSentences sentences, a space between them
SentenceTexts ==
    { JoinSpace(ss) : ss \in UNION {[1..n -> SentencePieces] : n \in 0..MaxSentences} }

\* SentenceChunker(size, overlap) has been constructed, with a size and an
\* overlap that may be zero or negative, and chunk(text, metadata) called on
\* it
SentenceInit ==
    /\ \E s \in Sizes \cup {-1}, o \in Overlaps :
          instance = SentenceChunker_init(s, o)
    /\ load = "n/a"
    /\ raised = None
    /\ text \in SentenceTexts \cup Texts
    /\ metadata \in Metadatas
    /\ gen = Frame0
    /\ out = <<>>
    /\ resolved = NotResolved
    /\ AuxInit

SentenceNext == SentenceChunkerNext

SentenceSpec == SentenceInit /\ [][SentenceNext]_vars

\* C23. Sentence overlap construction: when the sentence chunker, resumed
\* after it flushed a non-empty buffer because the next sentence s did not
\* fit, builds the next buffer, that buffer starts with the longest suffix of
\* the flushed buffer's sentences (possibly none) whose cumulative character
\* length is <= overlap, in their original order, followed by s; the overlap
\* is made of whole sentences of the flushed buffer.
SentenceOverlapConstruction ==
    [][ (instance.kind = "sentence" /\ gen.pc = "sentence_yield") =>
            LET flushed == gen.current_chunk
                s == gen.sentences[gen.pos]
                ov == gen'.overlap_sentences
                n == Len(ov)
            IN  /\ flushed # <<>>
                /\ gen.current_size + Len(s) > instance.size
                /\ n <= Len(flushed)
                /\ ov = Suffix(flushed, n)
                /\ n > 0 => SumLen(ov) <= instance.overlap
                /\ n < Len(flushed) =>
                       SumLen(Suffix(flushed, n + 1)) > instance.overlap
                /\ IsPrefix(ov \o <<s>>, gen'.current_chunk)
                /\ gen'.pc \in {"sentence_yield", "sentence_final"}
      ]_vars

\* after a flush of a buffer of two sentences, the next buffer was started
\* with the last of them only, followed by the sentence that did not fit
SentenceOverlapConstructionWitness ==
    /\ instance.kind = "sentence"
    /\ gen.pc \in {"sentence_yield", "sentence_final"}
    /\ Len(out) = 2
    /\ Len(SplitSentences(out[1].text)) = 2
    /\ Len(gen.overlap_sentences) = 1
    /\ gen.current_chunk = gen.overlap_sentences \o <<gen.sentences[3]>>

\* the generator is suspended at one of the sentence chunker's yields
AtSentenceYield(g) == g.pc \in {"sentence_yield", "sentence_final"}

\* the sentences of the chunk just yielded are those numbered RunStart to
\* RunEnd of the split
RunStart(g) == g.pos - Len(g.current_chunk)
RunEnd(g) == g.pos - 1

\* C24. Sentences are never split or dropped: for a non-empty text and any
\* size and overlap, every chunk the sentence chunker emits is the
\* single-space join of a non-empty contiguous run of the split sentences;
\* the first chunk's run starts at the first sentence, each later run starts
\* no later than just after the run before it and ends with a later
\* sentence, and the final chunk's run ends with the last sentence; so every
\* sentence, however long, is whole in some chunk, and first appearances
\* follow the original order.
SentencesWhole ==
    /\ [](  (instance.kind = "sentence" /\ text # <<>>) =>
              /\ AtSentenceYield(gen) =>
                    /\ gen.sentences = SplitSentences(text)
                    /\ 1 <= RunStart(gen) /\ RunStart(gen) <= RunEnd(gen)
                    /\ RunEnd(gen) <= Len(gen.sentences)
                    /\ gen.current_chunk =
                          SubSeq(gen.sentences, RunStart(gen), RunEnd(gen))
                    /\ out # <<>>
                    /\ out[Len(out)].text = JoinSpace(gen.current_chunk)
                    /\ gen.pc = "sentence_final" => RunEnd(gen) = Len(gen.sentences)
              /\ Done => (out # <<>> /\ RunEnd(gen) = Len(SplitSentences(text))) )
    /\ [][ (instance.kind = "sentence" /\ text # <<>> /\ AtSentenceYield(gen')) =>
               IF gen.pc = "start"
               THEN RunStart(gen') = 1
               ELSE /\ RunStart(gen') <= RunEnd(gen) + 1
                    /\ RunEnd(gen') > RunEnd(gen)
         ]_vars

\* a text of three sentences, one of them longer than size, has been chunked
\* to exhaustion into two or more chunks
SentencesWholeWitness ==
    /\ instance.kind = "sentence" /\ Done
    /\ Len(SplitSentences(text)) = 3
    /\ \E i \in 1..3 : Len(SplitSentences(text)[i]) > instance.size
    /\ instance.size >= 1
    /\ Len(out) >= 2

\* C25. Sentence chunker size bound, as claimed: for size > overlap >= 0, if
\* no sentence of the text is longer than size, the sentences of every chunk
\* emitted have a total length (joining spaces not counted) of at most size.
SentenceSizeBound ==
    (/\ instance.kind = "sentence" /\ ValidParams
     /\ \A i \in 1..Len(SplitSentences(text)) :
            Len(SplitSentences(text)[i]) <= instance.size
     /\ AtSentenceYield(gen)) =>
        SumLen(gen.current_chunk) <= instance.size

\* strategy.split("."): the module path and the class name of a dotted path
ModulePathOf(strategy) ==
    LET parts == SplitDotFrom(strategy, 1, <<>>)
    IN  JoinDot(SubSeq(parts, 1, Len(parts) - 1))
ClassNameOf(strategy) ==
    LET parts == SplitDotFrom(strategy, 1, <<>>)
    IN  parts[Len(parts)]

\* the class a dotted path names can be loaded
Loadable(strategy) ==
    /\ import_module(ModulePathOf(strategy)) = None
    /\ ClassNameOf(strategy) \in DOMAIN ModuleAttrs

\* C26. External strategy resolution order: for a strategy that is not a
\* built-in name, get_chunker imports the module named by everything before
\* the last dot and takes the class named by the last component; it first
\* constructs the class with size and overlap keyword arguments; it
\* constructs it without arguments if and only if that first attempt raised
\* TypeError; the instance returned is that of the first attempt that
\* succeeded.
ResolutionOrder ==
    (resolved.called /\ ExternalStrategy(resolved.strategy)) =>
        LET steps == resolved.steps
            cls == ClassNameOf(resolved.strategy)
            tried(x) == \E i \in 1..Len(steps) : steps[i] = x
        IN  /\ IsPrefix(steps, <<"import", "getattr", "kwargs", "noargs">>)
            /\ steps # <<>>
            /\ tried("getattr") <=> import_module(ModulePathOf(resolved.strategy)) = None
            /\ tried("kwargs") <=> Loadable(resolved.strategy)
            /\ tried("noargs") <=>
                  (Loadable(resolved.strategy)
                       /\ ConstructKw(ModuleAttrs[cls]) = "TypeError")
            /\ (Loadable(resolved.strategy) /\ ConstructKw(ModuleAttrs[cls]) = None) =>
                  /\ raised = None
                  /\ instance =
                        CustomInstance(cls, <<resolved.size, resolved.overlap>>)
            /\ (tried("noargs") /\ ConstructNoArgs(ModuleAttrs[cls]) = None) =>
                  /\ raised = None
                  /\ instance = CustomInstance(cls, <<>>)
            /\ raised = None =>
                  \/ ConstructKw(ModuleAttrs[cls]) = None
                  \/ tried("noargs") /\ ConstructNoArgs(ModuleAttrs[cls]) = None

\* a class that takes no arguments was resolved: the attempt with size and
\* overlap raised TypeError and the instance is that of the second attempt
ResolutionOrderWitness ==
    /\ resolved.called
    /\ resolved.strategy =
          <<"m", "y", "p", "a", "c", "k", "a", "g", "e", ".",
            "P", "l", "a", "i", "n", "C", "h", "u", "n", "k", "e", "r">>
    /\ resolved.steps = <<"import", "getattr", "kwargs", "noargs">>
    /\ raised = None
    /\ instance = CustomInstance(<<"P", "l", "a", "i", "n", "C", "h", "u", "n", "k", "e", "r">>, <<>>)

\* ---- the three places a tokenizer is loaded from: a caller's own
\* get_tokenizer call, the construction of a strategy through get_chunker,
\* and a prepare_docs_to_jsonl run
TokenizerInit == ResolverInit \/ PipelineInit

\* a caller calls get_tokenizer(name) itself
GetTokenizer ==
    /\ pipe.pc = "idle" /\ ~resolved.called /\ ~direct.called
    /\ \E name \in TokenizerNames, backend \in Backends :
          LET r == get_tokenizer(name, backend)
          IN  /\ direct' = [ called |-> TRUE, name |-> name, backend |-> backend,
                             value |-> r.value, raised |-> r.raised ]
              /\ raised' = r.raised
    /\ UNCHANGED <<instance, load, text, metadata, gen, out, resolved,
                   lists, mutated, calls, pipe, file>>

\* a caller constructs a strategy through get_chunker
ConstructStrategy ==
    /\ pipe.pc = "idle" /\ ~direct.called
    /\ GetChunker

TokenizerNext ==
    \/ GetTokenizer
    \/ ConstructStrategy
    \/ OpenOutput
    \/ PrepareDocsStart
    \/ PrepareDocsResume

TokenizerSpec == TokenizerInit /\ [][TokenizerNext]_vars

\* C27. Tokenizer loading error kinds: get_tokenizer(name) returns None
\* without raising when name is None; raises ImportError when the
\* tokenization library is missing; raises ValueError when the library is
\* present and the named encoding cannot be loaded; returns a tokenizer
\* otherwise; it raises nothing else.  Constructing the token strategy never
\* raises, whatever the name and the library.  A pipeline run with a
\* built-in strategy fails only with the error of its loader, never with an
\* error of the tokenizer.
TokenizerErrorKinds ==
    /\ direct.called =>
          /\ direct.raised \in {None, "ImportError", "ValueError"}
          /\ raised = direct.raised
          /\ direct.name = None => (direct.raised = None /\ direct.value = None)
          /\ (direct.name # None /\ direct.backend = "missing") =>
                direct.raised = "ImportError"
          /\ (direct.name # None /\ direct.backend = "installed"
                  /\ direct.name \notin KnownEncodings) =>
                direct.raised = "ValueError"
          /\ (direct.name # None /\ direct.backend = "installed"
                  /\ direct.name \in KnownEncodings) =>
                (direct.raised = None /\ direct.value = Tiktoken)
    /\ (resolved.called /\ EqualsIgnoreCase(resolved.strategy, Name_token)) =>
          /\ raised = None \/ (pipe.pc = "failed" /\ raised = pipe.source.error)
          /\ instance.kind = "token"
          /\ resolved.error = NoError
          /\ (resolved.tokenizer = None /\ resolved.tokenizer_name # None
                  /\ resolved.backend = "missing") =>
                (load = "ImportError" /\ instance.tokenizer = None)
          /\ (resolved.tokenizer = None /\ resolved.tokenizer_name # None
                  /\ resolved.backend = "installed"
                  /\ resolved.tokenizer_name \notin KnownEncodings) =>
                (load = "ValueError" /\ instance.tokenizer = None)
    /\ (pipe.pc = "failed" /\ ~ExternalStrategy(pipe.config.chunk_strategy)) =>
          /\ pipe.source.error # None
          /\ raised = pipe.source.error
          /\ pipe.stderr = ErrorOf(pipe.source.error)
          /\ pipe.doc = Len(pipe.source.docs)

\* a run with the token strategy, the tokenization library missing, ended
\* well after writing the chunks of the character fallback
TokenizerErrorKindsWitness ==
    /\ pipe.pc = "done"
    /\ pipe.exit = "exit_0"
    /\ pipe.chunker = NoInstance
    /\ pipe.backend = "missing"
    /\ load = "ImportError"
    /\ Len(file.lines) >= 2
    /\ "start_char" \in DOMAIN out[1].metadata

\* the number of sentences the text is split into
SentenceCount == IF text = <<>> THEN 0 ELSE Len(SplitSentences(text))

\* C28. The sentence chunker terminates for every text and every size and
\* overlap, valid or not: nothing is raised, each chunk ends with a sentence
\* later than the last sentence of the chunk before it, so the chunks never
\* outnumber the split sentences, and the call ends by exhaustion.
SentenceTermination ==
    /\ [](  instance.kind = "sentence" =>
              /\ raised = None
              /\ Len(out) <= SentenceCount
              /\ AtSentenceYield(gen) =>
                    /\ Len(out) <= RunEnd(gen)
                    /\ RunEnd(gen) <= SentenceCount
              /\ Done \/ CanResume )
    /\ [][ (instance.kind = "sentence" /\ AtSentenceYield(gen)
                /\ AtSentenceYield(gen')) =>
               /\ Len(out') = Len(out) + 1
               /\ RunEnd(gen') > RunEnd(gen)
         ]_vars

\* a sentence chunker whose overlap is not below its size has been consumed
\* to exhaustion: one chunk for each of three sentences
SentenceTerminationWitness ==
    /\ instance.kind = "sentence" /\ Done
    /\ instance.overlap >= instance.size
    /\ instance.overlap >= 1
    /\ SentenceCount = 3
    /\ Len(out) = 3

\* ceil(a / b) for a >= 0, b > 0
CeilDiv(a, b) == (a + b - 1) \div b

\* C29. Character chunk count: for a text of length L and size > overlap >= 0
\* the character chunker emits exactly ceil(L / (size - overlap)) chunks,
\* none for the empty text; the k-th chunk (counting from 0) starts at
\* start_char = k*(size - overlap) and has between 1 and size characters.
CharacterChunkCount ==
    (instance.kind = "character" /\ ValidParams) =>
        LET step == instance.size - instance.overlap
        IN  /\ Len(out) <= CeilDiv(Len(text), step)
            /\ Done => Len(out) = CeilDiv(Len(text), step)
            /\ Done \/ CanResume
            /\ \A k \in 1..Len(out) :
                  /\ StartChar(k) = (k - 1) * step
                  /\ 1 <= Len(out[k].text)
                  /\ Len(out[k].text) <= instance.size

\* a character chunker with an overlap has been consumed to exhaustion: a
\* chunk for every position of a text of the greatest length, the last of
\* them shorter than size
CharacterChunkCountWitness ==
    /\ instance.kind = "character" /\ ValidParams /\ Done
    /\ instance.overlap >= 1
    /\ instance.size - instance.overlap = 1
    /\ Len(text) = MaxLen
    /\ Len(out) = MaxLen
    /\ Len(out[Len(out)].text) < instance.size

\* the order of a document's events: its hooks, the call of chunker.chunk,
\* the chunks
EventRank(e) ==
    CASE e.event = "hook" -> 1
      [] e.event = "chunk" -> 2
      [] OTHER -> 3

\* the chunks emitted before the k-th that belong to the same document
EarlierOfDoc(k) == {j \in 1..(k - 1) : DocOfChunk(j) = DocOfChunk(k)}

\* C30. Emission order: prepare_docs emits the chunks grouped by document in
\* loader order; the events of a run (hook calls, chunker.chunk calls, chunks
\* yielded) never go back to an earlier document, and within a document the
\* hooks come first, then the one chunker.chunk call, then its chunks; each
\* chunk carries its document's source_id and, for a built-in windowed
\* strategy, a chunk_index that counts the document's chunks from 0; every
\* chunk yielded has been taken by the consumer, and while the run is
\* suspended the last thing done is the yield of the chunk taken last, so
\* nothing of a later document has run.
EmissionOrder ==
    Started =>
        LET tr == pipe.trace
            IsYield(e) == e.event = "yield"
        IN  /\ \A i, j \in 1..Len(tr) :
                  i < j =>
                      /\ tr[i].doc <= tr[j].doc
                      /\ tr[i].doc = tr[j].doc => EventRank(tr[i]) <= EventRank(tr[j])
                      /\ (tr[i].doc = tr[j].doc /\ tr[i].event = "chunk") =>
                             tr[j].event = "yield"
            /\ \A i \in 1..Len(tr) : tr[i].doc \in 1..pipe.doc
            /\ Len(SelectSeq(tr, IsYield)) = Len(out)
            /\ pipe.pc = "running" => (tr # <<>> /\ tr[Len(tr)].event = "yield"
                                          /\ tr[Len(tr)].doc = pipe.doc)
            /\ \A k \in 1..Len(out) :
                  /\ out[k].metadata["source_id"] =
                        pipe.source.docs[DocOfChunk(k)].metadata["source_id"]
                  /\ instance.kind \in Windowed =>
                        out[k].metadata["chunk_index"] = Cardinality(EarlierOfDoc(k))

\* the consumer has taken the first chunk of the second document, after two
\* or more chunks of the first, in a run with hooks
EmissionOrderWitness ==
    /\ pipe.pc = "running"
    /\ pipe.chunker = NoInstance
    /\ instance.kind \in Windowed
    /\ pipe.config.metadata_hooks # <<>>
    /\ Len(out) >= 3
    /\ DocOfChunk(Len(out)) = 2
    /\ DocOfChunk(Len(out) - 1) = 1
    /\ out[Len(out)].metadata["chunk_index"] = 0
    /\ out[Len(out) - 1].metadata["chunk_index"] >= 1

====
